---- MODULE Spec2Model ----
(***************************************************************************)
(* Model of the process-document edge function                             *)
(* (supabase/functions/process-document/index.ts) together with the        *)
(* validation helpers it calls (supabase/functions/_shared/validation.ts)  *)
(* and the rows of the relational store it reads and writes.               *)
(*                                                                         *)
(* One request is a sequence of steps, one per await of the handler; the   *)
(* store, the object storage, the Notion API and the Gemini API are the    *)
(* environment and every answer they can give is a nondeterministic        *)
(* choice of the step that awaits them.                                    *)
(***************************************************************************)
EXTENDS Integers, Sequences, FiniteSets, TLC

(***************************************************************************)
(* Bounds of the model.                                                    *)
(***************************************************************************)
\* total number of requests the clients issue
MaxRuns == 2
\* milliseconds the clock advances in the specifications that let it run
MaxTicks == 2
\* calls of the rate limiter made for one key within one window
MaxCalls == 4

(***************************************************************************)
(* Strings are sequences of one-character strings, so that the regular     *)
(* expressions of validation.ts can be evaluated on them.                  *)
(***************************************************************************)
Rep(c, n) == [i \in 1..n |-> c]

HexLower == {"0", "1", "2", "3", "4", "5", "6", "7", "8", "9",
             "a", "b", "c", "d", "e", "f"}

\* String.prototype.toLowerCase on the characters the inputs are made of
LowerChar(c) ==
  CASE c = "A" -> "a"
    [] c = "B" -> "b"
    [] c = "C" -> "c"
    [] c = "D" -> "d"
    [] c = "E" -> "e"
    [] c = "F" -> "f"
    [] c = "G" -> "g"
    [] c = "H" -> "h"
    [] c = "I" -> "i"
    [] c = "J" -> "j"
    [] c = "K" -> "k"
    [] c = "L" -> "l"
    [] c = "M" -> "m"
    [] c = "N" -> "n"
    [] c = "O" -> "o"
    [] c = "P" -> "p"
    [] c = "Q" -> "q"
    [] c = "R" -> "r"
    [] c = "S" -> "s"
    [] c = "T" -> "t"
    [] c = "U" -> "u"
    [] c = "V" -> "v"
    [] c = "W" -> "w"
    [] c = "X" -> "x"
    [] c = "Y" -> "y"
    [] c = "Z" -> "z"
    [] OTHER -> c

ToLower(s) == [i \in 1..Len(s) |-> LowerChar(s[i])]

RECURSIVE TrimStart(_)
TrimStart(s) ==
  IF s # <<>> /\ Head(s) = " " THEN TrimStart(Tail(s)) ELSE s

RECURSIVE TrimEnd(_)
TrimEnd(s) ==
  IF s # <<>> /\ s[Len(s)] = " " THEN TrimEnd(SubSeq(s, 1, Len(s) - 1)) ELSE s

\* String.prototype.trim
Trim(s) == TrimEnd(TrimStart(s))

\* s.replace(/-/g, '')
RECURSIVE StripHyphens(_)
StripHyphens(s) ==
  IF s = <<>> THEN <<>>
  ELSE IF Head(s) = "-" THEN StripHyphens(Tail(s))
       ELSE <<Head(s)>> \o StripHyphens(Tail(s))

(***************************************************************************)
(* A pattern is a sequence of items; an item is a set of characters that   *)
(* must match one character, or the optional hyphen "-?".                  *)
(***************************************************************************)
OptHyphen == "-?"

RECURSIVE MatchPattern(_, _)
MatchPattern(s, pat) ==
  IF pat = <<>> THEN s = <<>>
  ELSE IF Head(pat) = {OptHyphen}
       THEN IF s # <<>> /\ Head(s) = "-"
            THEN MatchPattern(Tail(s), Tail(pat))
            ELSE MatchPattern(s, Tail(pat))
       ELSE /\ s # <<>>
            /\ Head(s) \in Head(pat)
            /\ MatchPattern(Tail(s), Tail(pat))

\* /^[0-9a-f]{8}-?[0-9a-f]{4}-?4[0-9a-f]{3}-?[89ab][0-9a-f]{3}-?[0-9a-f]{12}$/i
uuidRegex ==
  Rep(HexLower, 8) \o <<{OptHyphen}>> \o Rep(HexLower, 4) \o <<{OptHyphen}>>
  \o <<{"4"}>> \o Rep(HexLower, 3) \o <<{OptHyphen}>>
  \o <<{"8", "9", "a", "b"}>> \o Rep(HexLower, 3) \o <<{OptHyphen}>>
  \o Rep(HexLower, 12)

\* /^[a-f0-9]{8}-?[a-f0-9]{4}-?[a-f0-9]{4}-?[a-f0-9]{4}-?[a-f0-9]{12}$/i
sourceIdRegex ==
  Rep(HexLower, 8) \o <<{OptHyphen}>> \o Rep(HexLower, 4) \o <<{OptHyphen}>>
  \o Rep(HexLower, 4) \o <<{OptHyphen}>> \o Rep(HexLower, 4) \o <<{OptHyphen}>>
  \o Rep(HexLower, 12)

(***************************************************************************)
(* Messages: the text that identifies the message and its length in        *)
(* characters (the slice(0, 500) of the error path acts on the length).    *)
(***************************************************************************)
Msg(t, n) == [text |-> t, len |-> n]
NoMsg == Msg("", 0)

\* validateUUID(uuid)
validateUUID(uuid) ==
  IF uuid = <<>>
  THEN [valid |-> FALSE, sanitized |-> <<>>, error |-> Msg("UUID is required", 16)]
  ELSE LET trimmed == ToLower(Trim(uuid))
       IN  IF ~MatchPattern(trimmed, uuidRegex)
           THEN [valid |-> FALSE, sanitized |-> trimmed,
                 error |-> Msg("Invalid UUID format", 19)]
           ELSE [valid |-> TRUE, sanitized |-> trimmed, error |-> NoMsg]

\* validateSourceId(sourceId)
validateSourceId(sourceId) ==
  IF sourceId = <<>>
  THEN [valid |-> FALSE, sanitized |-> <<>>,
        error |-> Msg("Source ID is required", 21)]
  ELSE LET trimmed == ToLower(Trim(sourceId))
       IN  IF ~MatchPattern(trimmed, sourceIdRegex)
           THEN [valid |-> FALSE, sanitized |-> trimmed,
                 error |-> Msg("Invalid source ID format", 24)]
           ELSE [valid |-> TRUE, sanitized |-> StripHyphens(trimmed),
                 error |-> NoMsg]

\* JavaScript truthiness of the value validateSourceId returns: an object
\* is truthy whatever its fields hold
Truthy(obj) == DOMAIN obj = DOMAIN obj

\* validateFileSize(sizeInBytes), maxSizeMB = 20
maxSizeMB == 20
maxBytes == maxSizeMB * 1024 * 1024

validateFileSize(sizeInBytes) ==
  IF sizeInBytes < 0
  THEN [valid |-> FALSE, error |-> Msg("Invalid file size", 17)]
  ELSE IF sizeInBytes > maxBytes
  THEN [valid |-> FALSE, error |-> Msg("File size exceeds 20MB limit", 28)]
  ELSE IF sizeInBytes = 0
  THEN [valid |-> FALSE, error |-> Msg("File is empty", 13)]
  ELSE [valid |-> TRUE, error |-> NoMsg]

\* the default allow-list of validateFileType
allowedTypes ==
  {"application/pdf", "image/jpeg", "image/png", "image/webp", "image/heic",
   "application/vnd.openxmlformats-officedocument.wordprocessingml.document",
   "application/msword"}

\* a file_type column holding an allowed type followed by 500 blanks
PaddedType == "application/msword followed by 500 blanks"

\* mimeType.trim().toLowerCase() on the MIME types of the model
NormalizeType(t) ==
  IF t = "IMAGE/PNG" THEN "image/png"
  ELSE IF t = PaddedType THEN "application/msword"
  ELSE t

\* length of a MIME type of the model, for the messages that embed it
TypeLen(t) ==
  CASE t = "application/pdf" -> 15
    [] t = "application/msword" -> 18
    [] t = "image/png" -> 9
    [] t = "IMAGE/PNG" -> 9
    [] t = PaddedType -> 518
    [] t = "text/plain" -> 10
    [] OTHER -> 71

\* validateFileType(mimeType)
validateFileType(mimeType) ==
  IF mimeType = ""
  THEN [valid |-> FALSE, error |-> Msg("File type is required", 21)]
  ELSE IF NormalizeType(mimeType) \notin allowedTypes
  THEN [valid |-> FALSE,
        error |-> Msg("File type not allowed", 22 + TypeLen(mimeType))]
  ELSE [valid |-> TRUE, error |-> NoMsg]

(***************************************************************************)
(* The rate limiter of validation.ts.  Its map holds, per identifier, a    *)
(* record or nothing; a call is one synchronous turn.                      *)
(***************************************************************************)
Ips == {"ip1", "ip2"}

\* rateLimitMap.get(identifier) of an identifier the map does not hold
NoRecord == [set |-> FALSE, count |-> 0, resetTime |-> 0]

\* checkRateLimit with the comparison of the count off by one
checkRateLimit_OffByOne(map, identifier, maxRequests, windowMs, t) ==
  LET record == map[identifier]
  IN  IF ~record.set \/ t > record.resetTime
      THEN [allowed |-> TRUE, remaining |-> maxRequests - 1,
            resetTime |-> t + windowMs,
            map |-> [map EXCEPT ![identifier] =
                       [set |-> TRUE, count |-> 1, resetTime |-> t + windowMs]]]
      ELSE IF record.count > maxRequests
      THEN [allowed |-> FALSE, remaining |-> 0,
            resetTime |-> record.resetTime, map |-> map]
      ELSE [allowed |-> TRUE,
            remaining |-> maxRequests - (record.count + 1),
            resetTime |-> record.resetTime,
            map |-> [map EXCEPT ![identifier].count = @ + 1]]

\* checkRateLimit(identifier, maxRequests, windowMs) called at instant t:
\* what it returns and the map it leaves
checkRateLimit(map, identifier, maxRequests, windowMs, t) ==
  LET record == map[identifier]
  IN  IF ~record.set \/ t > record.resetTime
      THEN [allowed |-> TRUE, remaining |-> maxRequests - 1,
            resetTime |-> t + windowMs,
            map |-> [map EXCEPT ![identifier] =
                       [set |-> TRUE, count |-> 1, resetTime |-> t + windowMs]]]
      ELSE IF record.count >= maxRequests
      THEN [allowed |-> FALSE, remaining |-> 0,
            resetTime |-> record.resetTime, map |-> map]
      ELSE [allowed |-> TRUE,
            remaining |-> maxRequests - (record.count + 1),
            resetTime |-> record.resetTime,
            map |-> [map EXCEPT ![identifier].count = @ + 1]]

\* the windows as the callers see them: a call made when no window is open,
\* or after the open window's end, opens a window that lasts windowMs; any
\* other call is one more call of the open window
NoWindow == [calls |-> 0, until |-> 0, windows |-> 0, last |-> "none"]

Tally(t, identifier, windowMs, at, result) ==
  LET w == t[identifier]
      opens == w.calls = 0 \/ at > w.until
  IN  [t EXCEPT ![identifier] =
         [calls |-> IF opens THEN 1 ELSE w.calls + 1,
          until |-> IF opens THEN at + windowMs ELSE w.until,
          windows |-> IF opens THEN w.windows + 1 ELSE w.windows,
          last |-> IF result.allowed THEN "allowed" ELSE "rejected"]]

\* the instant the clock shows when the model starts
Epoch == 59999

\* the limit and the window the handler passes, line 45
gateLimit == 50
gateWindowMs == 60000
GateLim == [maxRequests |-> gateLimit, windowMs |-> gateWindowMs]

\* the address the requests of the model come from (extractIpAddress)
ipAddress == "ip1"

\* Math.ceil(x / 1000) printed by String(): -0 prints as 0
CeilSeconds(x) == -((-x) \div 1000)

\* line 57: String(Math.ceil((rateLimit.resetTime - Date.now()) / 1000))
RetryAfter_Floor(resetTime, at) == (resetTime - at) \div 1000
RetryAfter(resetTime, at) == CeilSeconds(resetTime - at)

\* milliseconds between the clock read inside checkRateLimit and the read
\* of line 57, both made in one synchronous turn
TurnDelays == {0, 1}

(***************************************************************************)
(* JSON values as the handler holds them after JSON.parse: a string, a     *)
(* number (its digits), null, an object (its keys in order, each with its  *)
(* value) or an array.                                                     *)
(***************************************************************************)
JStr(c) == [kind |-> "string", chars |-> c, pairs |-> <<>>, items |-> <<>>]
JNum(c) == [kind |-> "number", chars |-> c, pairs |-> <<>>, items |-> <<>>]
JNull == [kind |-> "null", chars |-> <<>>, pairs |-> <<>>, items |-> <<>>]
JObj(p) == [kind |-> "object", chars |-> <<>>, pairs |-> p, items |-> <<>>]
JArr(i) == [kind |-> "array", chars |-> <<>>, pairs |-> <<>>, items |-> i]
Pair(key, value) == [k |-> key, v |-> value]

\* Object.keys(obj)
Keys(obj) == {obj.pairs[i].k : i \in 1..Len(obj.pairs)}

\* obj[key] of a key the object has
Lookup(obj, key) ==
  LET i == CHOOSE j \in 1..Len(obj.pairs) : obj.pairs[j].k = key
  IN  obj.pairs[i].v

RECURSIVE Without(_, _)
Without(pairs, keys) ==
  IF pairs = <<>> THEN <<>>
  ELSE IF Head(pairs).k \in keys THEN Without(Tail(pairs), keys)
       ELSE <<Head(pairs)>> \o Without(Tail(pairs), keys)

\* { ...a, ...b }: the keys of a in their order, a key that b has too with
\* the value of b, then the other keys of b
Spread(a, b) ==
  [i \in 1..Len(a) |->
     IF a[i].k \in {b[j].k : j \in 1..Len(b)}
     THEN Pair(a[i].k, Lookup(JObj(b), a[i].k))
     ELSE a[i]]
  \o Without(b, {a[i].k : i \in 1..Len(a)})

S_source_id == <<"s", "o", "u", "r", "c", "e", "_", "i", "d">>
S_content == <<"c", "o", "n", "t", "e", "n", "t">>
S_items == <<"i", "t", "e", "m", "s">>

\* lines 556-558: contentPayload
ContentPayload(sourceId, jsonData) ==
  LET tag == <<Pair(S_source_id,
                    IF sourceId = <<>> THEN JNull ELSE JStr(sourceId))>>
  IN  IF jsonData.kind = "object"
      THEN JObj(Spread(tag, jsonData.pairs))
      ELSE JObj(tag \o <<Pair(S_content, jsonData)>>)

(***************************************************************************)
(* The CSV helpers of index.ts, on sequences of characters.                *)
(***************************************************************************)
WhiteSpace == {" ", "\n", "\r", "\t"}

RECURSIVE TrimWsStart(_)
TrimWsStart(s) ==
  IF s # <<>> /\ Head(s) \in WhiteSpace THEN TrimWsStart(Tail(s)) ELSE s

RECURSIVE TrimWsEnd(_)
TrimWsEnd(s) ==
  IF s # <<>> /\ s[Len(s)] \in WhiteSpace
  THEN TrimWsEnd(SubSeq(s, 1, Len(s) - 1)) ELSE s

\* String.prototype.trim on text that holds line breaks and tabs
TrimWs(s) == TrimWsEnd(TrimWsStart(s))

\* number of double quotes in s
RECURSIVE CountQuotes(_)
CountQuotes(s) ==
  IF s = <<>> THEN 0
  ELSE (IF Head(s) = "\"" THEN 1 ELSE 0) + CountQuotes(Tail(s))

\* the commas the regex of parseCSVHeaders matches: those followed by an
\* even number of double quotes up to the end of the line
IsSeparator(line, i) ==
  /\ line[i] = ","
  /\ CountQuotes(SubSeq(line, i + 1, Len(line))) % 2 = 0

\* line.split(regex)
RECURSIVE SplitLine(_)
SplitLine(line) ==
  IF \E i \in 1..Len(line) : IsSeparator(line, i)
  THEN LET i == CHOOSE j \in 1..Len(line) :
                  /\ IsSeparator(line, j)
                  /\ \A h \in 1..(j - 1) : ~IsSeparator(line, h)
       IN  <<SubSeq(line, 1, i - 1)>>
           \o SplitLine(SubSeq(line, i + 1, Len(line)))
  ELSE <<line>>

\* h.replace(/^"|"$/g, '')
StripQuotes(h) ==
  LET a == IF h # <<>> /\ Head(h) = "\"" THEN Tail(h) ELSE h
  IN  IF a # <<>> /\ a[Len(a)] = "\"" THEN SubSeq(a, 1, Len(a) - 1) ELSE a

\* parseCSVHeaders(line)
parseCSVHeaders(line) ==
  LET parts == SplitLine(line)
  IN  [i \in 1..Len(parts) |-> StripQuotes(TrimWs(parts[i]))]

\* k.replace(/[_\s-]+/g, '')
RECURSIVE StripSeparators(_)
StripSeparators(k) ==
  IF k = <<>> THEN <<>>
  ELSE IF Head(k) \in WhiteSpace \cup {"_", "-"}
       THEN StripSeparators(Tail(k))
       ELSE <<Head(k)>> \o StripSeparators(Tail(k))

\* normalizeKey without the lower-casing
normalizeKey_KeepCase(k) == StripSeparators(k)

\* normalizeKey(k)
normalizeKey(k) == ToLower(StripSeparators(k))

\* parts.join(sep)
RECURSIVE Join(_, _)
Join(parts, sep) ==
  IF parts = <<>> THEN <<>>
  ELSE IF Len(parts) = 1 THEN parts[1]
       ELSE parts[1] \o sep \o Join(Tail(parts), sep)

\* String(val) of a JSON value
RECURSIVE StringOf(_)
StringOf(val) ==
  CASE val.kind = "string" -> val.chars
    [] val.kind = "number" -> val.chars
    [] val.kind = "null" -> <<>>
    [] val.kind = "array" ->
         Join([i \in 1..Len(val.items) |-> StringOf(val.items[i])], <<",">>)
    [] OTHER -> <<"[", "o", "b", "j", "e", "c", "t", " ", "O", "b", "j", "e", "c", "t", "]">>

\* str.replace(/"/g, '""')
RECURSIVE DoubleQuotes(_)
DoubleQuotes(str) ==
  IF str = <<>> THEN <<>>
  ELSE (IF Head(str) = "\"" THEN <<"\"", "\"">> ELSE <<Head(str)>>)
       \o DoubleQuotes(Tail(str))

\* lines 761-763: a cell of the rebuilt CSV
Cell(val) ==
  LET str == DoubleQuotes(StringOf(val))
  IN  IF \E i \in 1..Len(str) : str[i] \in {",", "\n", "\r", "\""}
      THEN <<"\"">> \o str \o <<"\"">>
      ELSE str

\* String(i) of an index below ten
IndexKey(i) ==
  <<CASE i = 0 -> "0" [] i = 1 -> "1" [] i = 2 -> "2" [] i = 3 -> "3"
      [] i = 4 -> "4" [] i = 5 -> "5" [] i = 6 -> "6" [] i = 7 -> "7"
      [] i = 8 -> "8" [] OTHER -> "9">>

\* row && typeof row === 'object', then Object.keys(row) with the values:
\* the properties of an object, the indices of an array, nothing otherwise
Entries(row) ==
  CASE row.kind = "object" -> row.pairs
    [] row.kind = "array" ->
         [i \in 1..Len(row.items) |-> Pair(IndexKey(i - 1), row.items[i])]
    [] OTHER -> <<>>

\* lines 751-756 with a key found used whatever it is
ValueFor_AnyKey(row, header) ==
  LET es == Entries(row)
  IN  IF \E i \in 1..Len(es) : normalizeKey(es[i].k) = normalizeKey(header)
      THEN LET i == CHOOSE j \in 1..Len(es) :
                      /\ normalizeKey(es[j].k) = normalizeKey(header)
                      /\ \A h \in 1..(j - 1) :
                           normalizeKey(es[h].k) # normalizeKey(header)
           IN  es[i].v
      ELSE JStr(<<>>)

\* lines 751-756: the value of the first key of the row that normalizes to
\* the header, or the empty string when there is none or when that key is
\* the empty string (if (foundKey))
ValueFor(row, header) ==
  LET es == Entries(row)
  IN  IF \E i \in 1..Len(es) : normalizeKey(es[i].k) = normalizeKey(header)
      THEN LET i == CHOOSE j \in 1..Len(es) :
                      /\ normalizeKey(es[j].k) = normalizeKey(header)
                      /\ \A h \in 1..(j - 1) :
                           normalizeKey(es[h].k) # normalizeKey(header)
           IN  IF es[i].k = <<>> THEN JStr(<<>>) ELSE es[i].v
      ELSE JStr(<<>>)

\* lines 740-744: the rows the CSV is rebuilt from
RowsFromJson(jsonData) ==
  IF jsonData.kind = "array" THEN jsonData.items
  ELSE IF jsonData.kind = "object"
          /\ S_items \in Keys(jsonData)
          /\ Lookup(jsonData, S_items).kind = "array"
       THEN Lookup(jsonData, S_items).items
       ELSE <<jsonData>>

\* rebuildCSVFromJson(jsonData, headers)
rebuildCSVFromJson(jsonData, headers) ==
  LET rws == RowsFromJson(jsonData)
      line(row) == Join([i \in 1..Len(headers) |->
                           Cell(ValueFor(row, headers[i]))], <<",">>)
  IN  Join(<<Join(headers, <<",">>)>>
           \o [n \in 1..Len(rws) |-> line(rws[n])], <<"\n">>)

\* csvData.split('\n')[0] || ''
FirstLine(csvData) ==
  IF \E i \in 1..Len(csvData) : csvData[i] = "\n"
  THEN LET i == CHOOSE j \in 1..Len(csvData) :
                  /\ csvData[j] = "\n"
                  /\ \A h \in 1..(j - 1) : csvData[h] # "\n"
       IN  SubSeq(csvData, 1, i - 1)
  ELSE csvData

\* line 547: got and wanted have the same length and normalize alike,
\* position by position
HeadersMatch(got, wanted) ==
  /\ Len(got) = Len(wanted)
  /\ \A i \in 1..Len(got) : normalizeKey(got[i]) = normalizeKey(wanted[i])

\* lines 539-552: the CSV the run stores, given the header list of the schema
EnforceHeaders(csvData, jsonData, notionHeaders) ==
  IF notionHeaders.some /\ Len(notionHeaders.list) > 0
  THEN IF TrimWs(csvData) = <<>>
       THEN rebuildCSVFromJson(jsonData, notionHeaders.list)
       ELSE IF HeadersMatch(parseCSVHeaders(FirstLine(csvData)),
                            notionHeaders.list)
            THEN csvData
            ELSE rebuildCSVFromJson(jsonData, notionHeaders.list)
  ELSE csvData

(***************************************************************************)
(* The rows of the store.                                                  *)
(***************************************************************************)
Docs == {"d1", "d2"}
Users == {"A", "B"}
\* who sends a request: a signed-in user, or a caller whose bearer token is
\* missing or invalid
Callers == Users \cup {"anon"}

\* documents.id (gen_random_uuid(): a version-4 UUID, printed in lower case)
IdOf(d) ==
  LET c == IF d = "d1" THEN "a" ELSE "b"
  IN  Rep(c, 8) \o <<"-">> \o Rep(c, 4) \o <<"-", "4">> \o Rep(c, 3)
      \o <<"-", "8">> \o Rep(c, 3) \o <<"-">> \o Rep(c, 12)

\* documents.user_id
user_id(d) == IF d = "d1" THEN "A" ELSE "B"

\* documents.source_id is free text the owner types into the edit dialog
NoSource == <<>>
PlainSource == Rep("a", 32)
HyphenSource ==
  Rep("A", 8) \o <<"-">> \o Rep("b", 4) \o <<"-">> \o Rep("0", 4)
  \o <<"-">> \o Rep("9", 4) \o <<"-">> \o Rep("F", 12)
BadSource == <<"m", "y", "-", "d", "b">>

Attr(size, type, docx, src) ==
  [file_size |-> size, file_type |-> type, docxName |-> docx, source_id |-> src]

\* the attributes a document row can carry (file_size, file_type, whether
\* the filename ends in .docx, source_id)
Profiles ==
  { Attr(0, "application/pdf", FALSE, NoSource),
    Attr(maxBytes + 1, "application/pdf", FALSE, NoSource),
    Attr(1024, "text/plain", FALSE, NoSource),
    Attr(maxBytes, "application/pdf", FALSE, NoSource),
    Attr(1024, "application/pdf", FALSE, PlainSource),
    Attr(1024, "application/pdf", FALSE, BadSource),
    Attr(1024, "application/msword", FALSE, NoSource),
    Attr(1024, "application/msword", TRUE, NoSource),
    Attr(1024, "image/png", FALSE, HyphenSource),
    Attr(1024, "IMAGE/PNG", FALSE, NoSource),
    Attr(1024, PaddedType, FALSE, NoSource) }

\* the second document, which no request of the model names, is an image
\* without a source_id
OtherProfile == Attr(1024, "image/png", FALSE, NoSource)

\* what the client puts in body.documentId: nothing, the id of its
\* document, the same id in upper case between blanks, a well-formed id no
\* document has, a UUID that is not version 4, and text that is no UUID
UpperId == <<" ">> \o [i \in 1..36 |-> IF IdOf("d1")[i] = "a" THEN "A"
                                       ELSE IdOf("d1")[i]] \o <<" ">>
UnknownId ==
  Rep("c", 8) \o <<"-">> \o Rep("c", 4) \o <<"-", "4">> \o Rep("c", 3)
  \o <<"-", "9">> \o Rep("c", 3) \o <<"-">> \o Rep("c", 12)
NotV4Id == Rep("a", 32)
TextId == <<"d", "o", "c", "-", "1">>
BodyIds ==
  { <<>>, IdOf("d1"), UpperId, UnknownId, NotV4Id, TextId }

NoHeaders == [some |-> FALSE, list |-> <<>>]
Headers(l) == [some |-> TRUE, list |-> l]

VARIABLES
  meta,          \* documents: the columns no request writes
  docs,          \* documents: status and error_message
  rows,          \* extracted_data
  req,           \* the requests in flight: position and local variables
  runs,          \* number of requests issued so far
  rateLimitMap,  \* the rate limiter's map: identifier -> count, resetTime
  now,           \* Date.now()
  lim,           \* the limit and window the callers of the limiter pass
  tally,         \* per identifier: the calls made in the current window
  auditSink,     \* whether the audit_logs table takes the writes
  successes,     \* per document: the runs that answered success
  persist,       \* the persist step on its own: its inputs and results
  userSettings   \* update-user-settings: the caller's row, the request

vars == <<meta, docs, rows, req, runs, rateLimitMap, now, lim, tally,
          auditSink, successes, persist, userSettings>>

\* what the handler leaves alone after its rate gate
gateVars == <<rateLimitMap, now, lim, tally, auditSink, persist,
              userSettings>>

Reqs == {1, 2}

IdleReq ==
  [ pc |-> "idle", run |-> 0, caller |-> "anon", documentId |-> <<>>,
    doc |-> "none", sourceId |-> <<>>, key |-> "none",
    headers |-> NoHeaders, notes |-> {}, issued |-> <<>>, applied |-> {},
    calls |-> {}, text |-> FALSE, cause |-> "none", error |-> NoMsg,
    resp |-> 0, inserted |-> FALSE, audits |-> {}, auditFailures |-> {},
    bodySourceId |-> <<>>,
    resetTime |-> 0, retryAfter |-> 0, jsonData |-> JNull, csvData |-> <<>> ]

\* the persist step when it is not looked at on its own
IdlePersist ==
  [ phase |-> "idle", sourceId |-> <<>>, headers |-> NoHeaders,
    jsonData |-> JNull, modelCsv |-> <<>>, csvData |-> <<>>,
    content |-> JNull ]

\* user_settings.notion_api_key when the column is null
NoBlob == [nonce |-> 0, text |-> <<>>]

\* the caller has no user_settings row
NoRow == [present |-> FALSE, notion_api_key |-> NoBlob,
          default_source_id |-> <<>>]

\* update-user-settings before a request: the caller's row as it is stored
IdleSettings ==
  [ row |-> NoRow, before |-> NoRow, pc |-> "idle", method |-> "none",
    header |-> FALSE, body |-> [json |-> FALSE, notion_api_key |-> <<>>,
                                default_source_id |-> <<>>],
    parsed |-> FALSE, encrypted |-> NoBlob, resp |-> 0, answer |-> <<>>,
    events |-> {} ]

\* the store after the uploads, no request made yet
InitStore ==
  /\ docs = [d \in Docs |-> [status |-> "pending", error_message |-> NoMsg]]
  /\ rows = {}
  /\ req = [r \in Reqs |-> IdleReq]
  /\ runs = 0
  /\ successes = [d \in Docs |-> 0]
  /\ persist = IdlePersist
  /\ userSettings = IdleSettings

\* the function instance as it starts: an empty rate limiter map
InitGate ==
  /\ rateLimitMap = [k \in Ips |-> NoRecord]
  /\ now = Epoch
  /\ lim = GateLim
  /\ tally = [k \in Ips |-> NoWindow]

Init ==
  /\ meta \in {m \in [Docs -> Profiles \cup {OtherProfile}] :
                 m["d2"] = OtherProfile /\ m["d1"] \in Profiles}
  /\ InitStore
  /\ InitGate
  /\ auditSink = "up"

(***************************************************************************)
(* The store as the handler sees it through the caller's client.  Every    *)
(* statement is applied or refused by the store (ok); the handler's own    *)
(* ownership check is the only one the model relies on, whatever row       *)
(* filtering the deployment adds.                                          *)
(***************************************************************************)
\* the uuid column compares ids whatever their hyphens
MatchDoc(id) == {d \in Docs : StripHyphens(IdOf(d)) = StripHyphens(id)}

\* .update({ status }).eq('id', id): the rows the statement changes when the
\* store applies it
UpdateStatus(ds, id, st, ok) ==
  [d \in Docs |->
     IF ok /\ d \in MatchDoc(id)
     THEN [ds[d] EXCEPT !.status = st]
     ELSE ds[d]]

\* .update({ status, error_message }).eq('id', id)
UpdateStatusMsg(ds, id, st, msg, ok) ==
  [d \in Docs |->
     IF ok /\ d \in MatchDoc(id)
     THEN [status |-> st, error_message |-> msg]
     ELSE ds[d]]

\* the status values the handler writes: lines 333, 574, 391 and 619
processingStatus_Reset == "pending"
processingStatus == "processing"
catchStatusValue_Processing == "processing"
completedStatus == "completed"
unsupportedStatus == "error"
catchStatusValue == "error"

\* the rows of extracted_data that belong to a document
RowsOf(d) == {row \in rows : row.document_id = d}

\* whether a statement the store applied changed a row
Changed(id, ok) == ok /\ MatchDoc(id) # {}

\* error.message?.slice(0, 500)
sliceLimit == 500
Slice_Tail(msg) ==
  Msg(msg.text, IF msg.len > sliceLimit THEN msg.len - sliceLimit ELSE 0)
Slice(msg) == Msg(msg.text, IF msg.len > sliceLimit THEN sliceLimit ELSE msg.len)

\* throw inside the try block: control goes to the catch block with the error
Throw(rq, cause, msg) ==
  [rq EXCEPT !.pc = "catch", !.cause = cause, !.error = msg]

(***************************************************************************)
(* The handler, one action per step.  R is the set of request slots the    *)
(* specification lets run; a slot is free again once its response is out.  *)
(***************************************************************************)
\* what the audit_logs table does with an insert
WriteAnswers == {"stored", "error", "throws"}

\* the answers a write may get: a table that is up stores every event
AnswersOf(sink) == IF sink = "up" THEN {"stored"} ELSE WriteAnswers

\* audit.ts lines 70-127 with the exception of the insert thrown again
logAuditEvent_Rethrows(answer) ==
  CASE answer = "stored" -> "stored"
    [] answer = "error" -> "errorLogged"
    [] answer = "throws" -> "rethrown"

\* audit.ts lines 70-127, logAuditEvent: the insert is awaited inside a try
\* block; an error it returns and an exception it throws are written to the
\* console and the function returns
logAuditEvent(answer) ==
  CASE answer = "stored" -> "stored"
    [] answer = "error" -> "errorLogged"
    [] answer = "throws" -> "exceptionLogged"

\* await logAuditEvent(...) in the handler, the table answering as `answer`
Audit(rq, action, answer) ==
  LET did == logAuditEvent(answer)
  IN  [rq EXCEPT !.audits = @ \cup {action},
                 !.auditFailures = @ \cup ({did} \ {"stored"})]

\* lines 34-76: a request arrives, in the first free slot, and passes the
\* rate gate or is answered 429 by it; req.json() yields the body or throws.
\* The body has a documentId and a sourceId (one of sourceIds, none when
\* empty); line 76 reads body.documentId and nothing else of the body
StartWith(r, sourceIds) ==
  /\ req[r].pc = "idle"
  /\ \A q \in Reqs : q < r => req[q].pc # "idle"
  /\ runs < MaxRuns
  /\ runs' = runs + 1
  /\ \E caller \in Callers, id \in BodyIds, json \in BOOLEAN,
        delay \in TurnDelays, bodySourceId \in sourceIds :
       LET rateLimit == checkRateLimit(rateLimitMap, ipAddress,
                                       gateLimit, gateWindowMs, now)
           rq == [IdleReq EXCEPT !.run = runs + 1, !.caller = caller,
                                 !.bodySourceId = bodySourceId]
       IN  /\ rateLimitMap' = rateLimit.map
           /\ tally' = Tally(tally, ipAddress, gateWindowMs, now, rateLimit)
           /\ req' = [req EXCEPT ![r] =
                        IF ~rateLimit.allowed
                        THEN [rq EXCEPT
                                !.pc = "done", !.cause = "rate", !.resp = 429,
                                !.resetTime = rateLimit.resetTime,
                                !.retryAfter =
                                   RetryAfter(rateLimit.resetTime, now + delay)]
                        ELSE IF json
                        THEN [rq EXCEPT !.pc = "validate", !.documentId = id]
                        ELSE Throw(rq, "json", Msg("Unexpected token", 40))]
  /\ UNCHANGED <<meta, docs, rows, now, lim, auditSink, successes, persist,
                 userSettings>>

\* a request whose body names a document only, as processDocument of
\* Index.tsx sends it
Start(r) ==
  /\ StartWith(r, {NoSource})
  /\ req'[r].bodySourceId = NoSource

\* lines 78-94: validateUUID(documentId || '')
ValidateId(r) ==
  /\ req[r].pc = "validate"
  /\ \E sink \in AnswersOf(auditSink) :
     LET v == validateUUID(req[r].documentId)
     IN  req' = [req EXCEPT ![r] =
                   IF ~v.valid
                   THEN Throw(Audit(@, "process_document_invalid_id", sink),
                              "badId", v.error)
                   ELSE [@ EXCEPT !.pc = "load", !.documentId = v.sanitized]]
  /\ UNCHANGED <<meta, docs, rows, runs, gateVars, successes>>

\* lines 96-103: select('*').eq('id', documentId).single()
LoadDocument(r) ==
  /\ req[r].pc = "load"
  /\ \E ok \in BOOLEAN :
       LET found == MatchDoc(req[r].documentId)
       IN  req' = [req EXCEPT ![r] =
                     IF ok /\ found # {}
                     THEN [@ EXCEPT !.pc = "auth",
                                    !.doc = CHOOSE d \in found : TRUE]
                     ELSE Throw(@, "docError", Msg("docError", 60))]
  /\ UNCHANGED <<meta, docs, rows, runs, gateVars, successes>>

\* !validateSourceId(sourceId), line 161
sourceIdRejected(sourceId) == ~Truthy(validateSourceId(sourceId))

\* lines 105-177: auth.getUser(), ownership, size and type validation, the
\* start audit event, and the check of the document's source_id
Authorize(r) ==
  /\ req[r].pc = "auth"
  /\ \E sink \in AnswersOf(auditSink), sink2 \in AnswersOf(auditSink) :
     LET rq == req[r]
         m == meta[rq.doc]
         user == rq.caller
         size == validateFileSize(m.file_size)
         type == validateFileType(m.file_type)
         started == Audit(rq, "process_document_start", sink)
     IN  req' = [req EXCEPT ![r] =
           IF user = "anon" \/ user_id(rq.doc) # user
           THEN Throw(Audit(rq, "process_document_unauthorized", sink),
                      "unauth", Msg("Unauthorized", 12))
           ELSE IF ~size.valid THEN Throw(rq, "size", size.error)
           ELSE IF ~type.valid THEN Throw(rq, "type", type.error)
           ELSE IF m.source_id = NoSource
           THEN [started EXCEPT !.pc = "mark"]
           ELSE IF sourceIdRejected(m.source_id)
           THEN [Audit(started, "validate_source_id", sink2) EXCEPT
                   !.pc = "done", !.cause = "badSource", !.resp = 400,
                   !.sourceId = m.source_id]
           ELSE [started EXCEPT !.pc = "settings", !.sourceId = m.source_id]]
  /\ UNCHANGED <<meta, docs, rows, runs, gateVars, successes>>

\* lines 179-268 with the system-wide key tried before the stored key
ResolveKey_SystemFirst(rq, settings, secret, decrypts, system, sink, sink2) ==
  LET looked == [rq EXCEPT !.calls = @ \cup {"settings"},
                           !.notes = @ \cup (IF system THEN {"systemKey"}
                                             ELSE {})]
  IN  IF system
      THEN Audit([looked EXCEPT
                    !.key = "system",
                    !.notes = @ \cup (IF settings = "key"
                                      THEN {"storedKey"} ELSE {})],
                 "use_system_notion_key", sink)
      ELSE IF settings = "key" /\ secret /\ decrypts
      THEN Audit([looked EXCEPT !.notes = @ \cup {"storedKey"},
                                !.key = "personal"],
                 "use_personal_notion_key", sink)
      ELSE looked

\* lines 179-268: the Notion credential: the owner's stored key, decrypted,
\* else the system-wide key (notes keep what the step found: a stored key,
\* a missing secret, a failed decryption, a configured system-wide key)
ResolveKey(rq, settings, secret, decrypts, system, sink, sink2) ==
  LET looked == [rq EXCEPT !.calls = @ \cup {"settings"}]
      s1 == IF settings = "error"
            THEN Audit([looked EXCEPT !.notes = @ \cup {"settingsError"}],
                       "fetch_user_settings", sink)
            ELSE looked
      s2 == IF settings # "key" THEN s1
            ELSE IF ~secret
            THEN Audit([s1 EXCEPT !.notes = @ \cup {"storedKey", "noSecret"}],
                       "decrypt_api_key", sink)
            ELSE IF decrypts
            THEN Audit([s1 EXCEPT !.notes = @ \cup {"storedKey"},
                                  !.key = "personal"],
                       "use_personal_notion_key", sink)
            ELSE Audit([s1 EXCEPT !.notes = @ \cup {"storedKey", "decryptFailed"}],
                       "decrypt_api_key", sink)
      s3 == IF system THEN [s2 EXCEPT !.notes = @ \cup {"systemKey"}] ELSE s2
  IN  IF s3.key # "none" THEN s3
      ELSE IF system
      THEN Audit([s3 EXCEPT !.key = "system"], "use_system_notion_key", sink2)
      ELSE s3

LookupSettings(r) ==
  /\ req[r].pc = "settings"
  /\ \E settings \in {"error", "none", "key"},
        secret \in BOOLEAN, decrypts \in BOOLEAN, system \in BOOLEAN,
        sink \in AnswersOf(auditSink), sink2 \in AnswersOf(auditSink) :
       LET rq == ResolveKey(req[r], settings, secret, decrypts, system,
                            sink, sink2)
       IN  req' = [req EXCEPT ![r] =
                     [rq EXCEPT !.pc = IF rq.key = "none" THEN "mark"
                                       ELSE "schema"]]
  /\ UNCHANGED <<meta, docs, rows, runs, gateVars, successes>>

\* the answers of the Notion API to GET /v1/databases/{id}
SchemaAnswers == {"ok", "empty", "null", "http", "network", "badjson", "noprops"}
SchemaFailures == {"null", "http", "network", "badjson", "noprops"}

\* fetchNotionDatabaseSchema followed by Object.keys(schema.properties):
\* the header list, or none
SchemaHeaders(answer) ==
  CASE answer = "ok" -> Headers(<<<<"I", "d">>, <<"Q", "t", "y">>>>)
    [] answer = "empty" -> Headers(<<>>)
    [] OTHER -> NoHeaders

\* lines 273-326: the schema fetch inside its try block; whatever the
\* answer, control leaves the block normally
AfterSchema_Escapes(rq, answer, sink) ==
  LET fetched == [Audit(rq, "fetch_notion_schema", sink) EXCEPT
                    !.calls = @ \cup {"schema"},
                    !.notes = @ \cup (IF answer \in SchemaFailures
                                      THEN {"schemaFailed"} ELSE {})]
  IN  IF answer = "noprops"
      THEN Throw(fetched, "schema",
                 Msg("Cannot convert undefined or null to object", 42))
      ELSE [fetched EXCEPT !.pc = "mark", !.headers = SchemaHeaders(answer)]

AfterSchema(rq, answer, sink) ==
  [Audit(rq, "fetch_notion_schema", sink) EXCEPT
     !.pc = "mark",
     !.calls = @ \cup {"schema"},
     !.notes = @ \cup (IF answer \in SchemaFailures
                       THEN {"schemaFailed"} ELSE {}),
     !.headers = SchemaHeaders(answer)]

\* lines 270-327
FetchSchema(r) ==
  /\ req[r].pc = "schema"
  /\ \E answer \in SchemaAnswers, sink \in AnswersOf(auditSink) :
       req' = [req EXCEPT ![r] = AfterSchema(@, answer, sink)]
  /\ UNCHANGED <<meta, docs, rows, runs, gateVars, successes>>

\* lines 330-340 without the update to processing
MarkProcessing_Skipped(r) ==
  /\ req[r].pc = "mark"
  /\ req' = [req EXCEPT ![r] = [@ EXCEPT !.pc = "download"]]
  /\ UNCHANGED <<meta, docs, rows, runs, gateVars, successes>>

\* lines 330-340 behind a check of the status the code does not make
MarkProcessing_Locked(r) ==
  /\ req[r].pc = "mark"
  /\ \A d \in MatchDoc(req[r].documentId) : docs[d].status # processingStatus
  /\ \E ok \in BOOLEAN :
       /\ docs' = UpdateStatus(docs, req[r].documentId, processingStatus, ok)
       /\ req' = [req EXCEPT ![r] =
                    [@ EXCEPT !.pc = "download",
                              !.issued = Append(@, processingStatus),
                              !.applied = IF Changed(req[r].documentId, ok)
                                          THEN @ \cup {processingStatus}
                                          ELSE @]]
  /\ UNCHANGED <<meta, rows, runs, gateVars, successes>>

\* lines 330-340: mark the document processing, then read GEMINI_API_KEY
MarkProcessing(r) ==
  /\ req[r].pc = "mark"
  /\ \E ok \in BOOLEAN, gemini \in BOOLEAN :
       LET rq == req[r]
           marked == [rq EXCEPT
                        !.issued = Append(@, processingStatus),
                        !.applied = IF Changed(rq.documentId, ok)
                                    THEN @ \cup {processingStatus} ELSE @]
       IN  /\ docs' = UpdateStatus(docs, rq.documentId,
                                   processingStatus, ok)
           /\ req' = [req EXCEPT ![r] =
                        IF gemini
                        THEN [marked EXCEPT !.pc = "download"]
                        ELSE Throw(marked, "noGemini",
                                   Msg("GEMINI_API_KEY is not configured", 81))]
  /\ UNCHANGED <<meta, rows, runs, gateVars, successes>>

\* lines 342-360: derive the object path and download from storage
Download(r) ==
  /\ req[r].pc = "download"
  /\ \E outcome \in {"nopath", "failed", "ok"} :
       req' = [req EXCEPT ![r] =
                 CASE outcome = "nopath" -> [@ EXCEPT !.pc = "fallback"]
                   [] outcome = "failed" ->
                        [@ EXCEPT !.pc = "fallback",
                                  !.calls = @ \cup {"download"}]
                   [] OTHER ->
                        [@ EXCEPT !.pc = "extract",
                                  !.calls = @ \cup {"download"}]]
  /\ UNCHANGED <<meta, docs, rows, runs, gateVars, successes>>

\* lines 360-369 without the test of resp.ok: the body of any response is
\* taken as the file
FallbackGet_Unchecked(r) ==
  /\ req[r].pc = "fallback"
  /\ \E outcome \in {"ok", "http"} :
       req' = [req EXCEPT ![r] =
                 [@ EXCEPT !.pc = "extract",
                           !.calls = @ \cup {"get"},
                           !.notes = @ \cup (IF outcome = "http"
                                             THEN {"getNotOk"} ELSE {})]]
  /\ UNCHANGED <<meta, docs, rows, runs, gateVars, successes>>

\* lines 360-369: fall back to a GET of file_url
FallbackGet(r) ==
  /\ req[r].pc = "fallback"
  /\ \E outcome \in {"ok", "http"} :
       LET got == [req[r] EXCEPT !.calls = @ \cup {"get"}]
       IN  req' = [req EXCEPT ![r] =
                     IF outcome = "ok"
                     THEN [got EXCEPT !.pc = "extract"]
                     ELSE Throw([got EXCEPT !.notes = @ \cup {"getNotOk"}],
                                "download",
                                Msg("Failed to fetch file_url", 232))]
  /\ UNCHANGED <<meta, docs, rows, runs, gateVars, successes>>

\* fileType.startsWith('application/pdf')
IsPdf(t) == t = "application/pdf"
\* fileType.includes('wordprocessingml.document')
IsDocx(t) ==
  t = "application/vnd.openxmlformats-officedocument.wordprocessingml.document"
\* file_type?.startsWith('image/')
IsImage(t) == t \in {"image/jpeg", "image/png", "image/webp", "image/heic"}

\* line 387: no text was extracted and the type is not an image type
unsupportedGate_Image(text, type) == ~text /\ IsImage(type)
unsupportedGate(text, type) == ~text /\ ~IsImage(type)

\* lines 371-399: local text extraction (a text, an empty text, or an
\* exception that is swallowed) and the gate on what it yields
Extract(r) ==
  /\ req[r].pc = "extract"
  /\ LET m == meta[req[r].doc]
         extractable == IsPdf(m.file_type) \/ IsDocx(m.file_type) \/ m.docxName
     IN  \E outcome \in {"text", "empty", "throws"} :
           /\ ~extractable => outcome = "empty"
           /\ LET text == extractable /\ outcome = "text"
              IN  req' = [req EXCEPT ![r] =
                            [@ EXCEPT !.text = text,
                                      !.notes = @ \cup {"extracted"},
                                      !.pc = IF unsupportedGate(text, m.file_type)
                                             THEN "unsupported" ELSE "ai"]]
  /\ UNCHANGED <<meta, docs, rows, runs, gateVars, successes>>

\* lines 387-399: the document is marked error and the answer is 400
MarkUnsupported(r) ==
  /\ req[r].pc = "unsupported"
  /\ \E ok \in BOOLEAN :
       LET rq == req[r]
           msg == Msg("Unsupported file type for automated processing",
                      48 + TypeLen(meta[rq.doc].file_type) + 32)
       IN  /\ docs' = UpdateStatusMsg(docs, rq.documentId,
                                      unsupportedStatus, msg, ok)
           /\ req' = [req EXCEPT ![r] =
                        [rq EXCEPT
                           !.pc = "done", !.cause = "unsupported",
                           !.error = msg, !.resp = 400,
                           !.issued = Append(@, unsupportedStatus),
                           !.applied = IF Changed(rq.documentId, ok)
                                       THEN @ \cup {unsupportedStatus} ELSE @]]
  /\ UNCHANGED <<meta, rows, runs, gateVars, successes>>

\* the blocks of a well-formed answer of the Gemini API, lines 503-537: the
\* parsed JSON block and the CSV block
AiOutput ==
  [ jsonData |-> JObj(<<Pair(<<"I", "d">>, JStr(<<"7">>)), Pair(<<"Q", "t", "y">>, JStr(<<"2">>))>>),
    csvData |-> <<"I", "d", ",", "Q", "t", "y", "\n", "7", ",", "2">> ]

\* lengths of the error text the Gemini API can send back
AiErrLens == {600}

\* lines 469-552: the call of the Gemini API, the checks of its answer and
\* the parsing of the text
CallAI(r) ==
  /\ req[r].pc = "ai"
  /\ \E answer \in {"ok", "http", "nocandidates"}, n \in AiErrLens :
       LET called == [req[r] EXCEPT !.calls = @ \cup {"ai"}]
       IN  req' = [req EXCEPT ![r] =
             CASE answer = "ok" ->
                    [called EXCEPT
                       !.pc = "insert",
                       !.jsonData = AiOutput.jsonData,
                       !.csvData = EnforceHeaders(AiOutput.csvData,
                                                  AiOutput.jsonData,
                                                  called.headers)]
               [] answer = "http" ->
                    Throw(called, "ai", Msg("AI processing failed", 28 + n))
               [] OTHER ->
                    Throw(called, "aiBody",
                          Msg("Invalid response from Gemini API", 32))]
  /\ UNCHANGED <<meta, docs, rows, runs, gateVars, successes>>

\* lines 555-569 as an upsert keyed by document_id, which the code does not
\* make
InsertRow_Upsert(r) ==
  /\ req[r].pc = "insert"
  /\ \E ok \in BOOLEAN :
       LET rq == req[r]
       IN  IF ok
           THEN /\ rows' = (rows \ RowsOf(rq.doc))
                             \cup {[document_id |-> rq.doc, run |-> rq.run,
                                    source_id |-> rq.sourceId,
                                    content |->
                                      ContentPayload(rq.sourceId, rq.jsonData),
                                    csv_data |-> rq.csvData]}
                /\ req' = [req EXCEPT ![r] =
                             [rq EXCEPT !.pc = "complete", !.inserted = TRUE]]
           ELSE /\ rows' = rows
                /\ req' = [req EXCEPT ![r] =
                             Throw(rq, "insert", Msg("dataError", 60))]
  /\ UNCHANGED <<meta, docs, runs, gateVars, successes>>

\* lines 555-569 without the throw of line 569: a refused insert is passed
\* over
InsertRow_Unchecked(r) ==
  /\ req[r].pc = "insert"
  /\ \E ok \in BOOLEAN :
       LET rq == req[r]
       IN  /\ rows' = IF ok
                      THEN rows \cup {[document_id |-> rq.doc, run |-> rq.run,
                                        source_id |-> rq.sourceId,
                                        content |->
                                          ContentPayload(rq.sourceId,
                                                         rq.jsonData),
                                        csv_data |-> rq.csvData]}
                      ELSE rows
           /\ req' = [req EXCEPT ![r] =
                        [rq EXCEPT !.pc = "complete", !.inserted = ok]]
  /\ UNCHANGED <<meta, docs, runs, gateVars, successes>>

\* lines 555-569: insert the extracted_data row
InsertRow(r) ==
  /\ req[r].pc = "insert"
  /\ \E ok \in BOOLEAN :
       LET rq == req[r]
       IN  IF ok
           THEN /\ rows' = rows \cup {[document_id |-> rq.doc, run |-> rq.run,
                                        source_id |-> rq.sourceId,
                                        content |->
                                          ContentPayload(rq.sourceId,
                                                         rq.jsonData),
                                        csv_data |-> rq.csvData]}
                /\ req' = [req EXCEPT ![r] =
                             [rq EXCEPT !.pc = "complete", !.inserted = TRUE]]
           ELSE /\ rows' = rows
                /\ req' = [req EXCEPT ![r] =
                             Throw(rq, "insert", Msg("dataError", 60))]
  /\ UNCHANGED <<meta, docs, runs, gateVars, successes>>

\* lines 571-575: mark the document completed
MarkCompleted(r) ==
  /\ req[r].pc = "complete"
  /\ \E ok \in BOOLEAN :
       LET rq == req[r]
       IN  /\ docs' = UpdateStatus(docs, rq.documentId,
                                   completedStatus, ok)
           /\ req' = [req EXCEPT ![r] =
                        [rq EXCEPT
                           !.pc = "respond",
                           !.issued = Append(@, completedStatus),
                           !.applied = IF Changed(rq.documentId, ok)
                                       THEN @ \cup {completedStatus} ELSE @]]
  /\ UNCHANGED <<meta, rows, runs, gateVars, successes>>

\* lines 577-598: the completion audit event and the 200 response
Respond(r) ==
  /\ req[r].pc = "respond"
  /\ \E sink \in AnswersOf(auditSink) :
     req' = [req EXCEPT ![r] =
               [Audit(@, "process_document_complete", sink) EXCEPT
                  !.pc = "done", !.resp = 200]]
  /\ successes' = [successes EXCEPT ![req[r].doc] = @ + 1]
  /\ UNCHANGED <<meta, docs, rows, runs, gateVars>>

\* the status the catch block answers with, line 647
catchStatus(cause) == 500

\* lines 640-642 with the exception thrown on: the handler ends without a
\* response
innerCatch_Rethrows(outcome) == IF outcome = "throws" THEN "crashed" ELSE "done"

\* lines 640-642: the inner catch logs what the update or the audit call
\* threw, and control goes on to the return of line 644
innerCatch(outcome) == "done"

\* lines 599-651: the catch block.  With a document id it issues the update
\* to error, which the store applies, refuses or fails on; the audit call
\* that follows reads document, which the catch block has no binding for,
\* so the call is never made; the inner catch swallows all of this
Catch(r) ==
  /\ req[r].pc = "catch"
  /\ \E outcome \in {"applied", "refused", "throws"} :
       LET rq == req[r]
           known == rq.documentId # <<>>
           ok == known /\ outcome = "applied"
       IN  /\ ~known => outcome = "refused"
           /\ docs' = UpdateStatusMsg(docs, rq.documentId,
                                      catchStatusValue, Slice(rq.error), ok)
           /\ req' = [req EXCEPT ![r] =
                        [rq EXCEPT
                           !.pc = innerCatch(outcome),
                           !.resp = IF innerCatch(outcome) = "done"
                                    THEN catchStatus(rq.cause) ELSE 0,
                           !.notes = @ \cup (IF outcome = "throws"
                                             THEN {"catchUpdateThrew"}
                                             ELSE {}),
                           !.issued = IF known THEN Append(@, catchStatusValue)
                                      ELSE @,
                           !.applied = IF Changed(rq.documentId, ok)
                                       THEN @ \cup {catchStatusValue} ELSE @]]
  /\ UNCHANGED <<meta, rows, runs, gateVars, successes>>

\* the response is out; the slot takes the next request
Finish(r) ==
  /\ req[r].pc = "done"
  /\ req' = [req EXCEPT ![r] = IdleReq]
  /\ UNCHANGED <<meta, docs, rows, runs, gateVars, successes>>

Step(r) ==
  \/ Start(r)
  \/ ValidateId(r)
  \/ LoadDocument(r)
  \/ Authorize(r)
  \/ LookupSettings(r)
  \/ FetchSchema(r)
  \/ MarkProcessing(r)
  \/ Download(r)
  \/ FallbackGet(r)
  \/ Extract(r)
  \/ MarkUnsupported(r)
  \/ CallAI(r)
  \/ InsertRow(r)
  \/ MarkCompleted(r)
  \/ Respond(r)
  \/ Catch(r)
  \/ Finish(r)

\* requests one after the other, as a single client issues them
Next == Step(1)

Spec == Init /\ [][Next]_vars

(***************************************************************************)
(* The handler scheduled fairly: every call it awaits returns, so a step   *)
(* that can be taken is taken.  The owner asks for its PDF to be processed.*)
(***************************************************************************)
\* the owner asks for its document to be processed (processDocument of
\* Index.tsx sends the id of a listed document)
StartOwner(r) ==
  /\ Start(r)
  /\ req'[r].caller = "A"
  /\ req'[r].documentId = IdOf("d1")

InitLive ==
  /\ meta = [d \in Docs |->
               IF d = "d1"
               THEN Attr(1024, "application/pdf", FALSE, NoSource)
               ELSE OtherProfile]
  /\ InitStore
  /\ InitGate
  /\ auditSink = "up"

\* the steps of a request for a PDF without a source_id: the handler skips
\* the credential and schema steps (line 159)
StepOwner(r) ==
  \/ StartOwner(r)
  \/ ValidateId(r)
  \/ LoadDocument(r)
  \/ Authorize(r)
  \/ MarkProcessing(r)
  \/ Download(r)
  \/ FallbackGet(r)
  \/ Extract(r)
  \/ MarkUnsupported(r)
  \/ CallAI(r)
  \/ InsertRow(r)
  \/ MarkCompleted(r)
  \/ Respond(r)
  \/ Catch(r)
  \/ Finish(r)

NextLive == StepOwner(1)

SpecLive == InitLive /\ [][NextLive]_vars /\ WF_vars(NextLive)

(***************************************************************************)
(* The upload of FileUpload.tsx followed by the request it sends: the row  *)
(* it inserts is an image without a source_id, and the body of the request *)
(* carries the database id the user entered.                               *)
(***************************************************************************)
UploadSourceIds == {PlainSource, HyphenSource}

InitUpload ==
  /\ meta = [d \in Docs |-> Attr(1024, "image/png", FALSE, NoSource)]
  /\ InitStore
  /\ InitGate
  /\ auditSink = "up"

\* FileUpload.tsx lines 82-86: invoke('process-document',
\* { body: { documentId: documentData.id, sourceId } })
StartUpload(r) ==
  /\ StartWith(r, UploadSourceIds)
  /\ req'[r].caller = "A"
  /\ req'[r].documentId \in {<<>>, IdOf("d1")}

StepUpload(r) ==
  \/ StartUpload(r)
  \/ ValidateId(r)
  \/ LoadDocument(r)
  \/ Authorize(r)
  \/ MarkProcessing(r)
  \/ Download(r)
  \/ FallbackGet(r)
  \/ Extract(r)
  \/ CallAI(r)
  \/ InsertRow(r)
  \/ MarkCompleted(r)
  \/ Respond(r)
  \/ Catch(r)
  \/ Finish(r)

NextUpload == StepUpload(1)

SpecUpload == InitUpload /\ [][NextUpload]_vars

(***************************************************************************)
(* The handler with an audit_logs table that stores, refuses or throws on  *)
(* each write, one document whose run makes every audit call.              *)
(***************************************************************************)
InitAudit ==
  /\ meta = [d \in Docs |->
               IF d = "d1"
               THEN Attr(1024, "application/pdf", FALSE, PlainSource)
               ELSE OtherProfile]
  /\ InitStore
  /\ InitGate
  /\ auditSink = "failing"

SpecAudit == InitAudit /\ [][Next]_vars

\* the owner's document is an image without a source_id
InitConc ==
  /\ meta = [d \in Docs |-> OtherProfile]
  /\ InitStore
  /\ InitGate
  /\ auditSink = "up"

\* the steps of a request for an image without a source_id: the handler
\* skips the credential and schema steps (line 159) and the image passes
\* the gate of line 387
StepImage(r) ==
  \/ StartOwner(r)
  \/ ValidateId(r)
  \/ LoadDocument(r)
  \/ Authorize(r)
  \/ MarkProcessing(r)
  \/ Download(r)
  \/ FallbackGet(r)
  \/ Extract(r)
  \/ CallAI(r)
  \/ InsertRow(r)
  \/ MarkCompleted(r)
  \/ Respond(r)
  \/ Catch(r)
  \/ Finish(r)

NextConc == \E r \in Reqs : StepImage(r)

\* two invocations of the function at a time, their steps interleaved
SpecConc == InitConc /\ [][NextConc]_vars

\* what the persist step can be given: the source_id of the document, the
\* header list of the schema, the JSON block and the CSV block of the answer
PersistSources == {NoSource, PlainSource, BadSource}

PersistHeaders ==
  { NoHeaders, Headers(<<>>), Headers(<<<<"I", "d">>, <<"Q", "t", "y">>>>),
    Headers(<<<<"A", ",", "B">>>>), Headers(<<<<"_">>>>) }

Row1 == JObj(<<Pair(<<"I", "d">>, JStr(<<"7">>)), Pair(<<"Q", "t", "y">>, JStr(<<"2">>))>>)
Row2 == JObj(<<Pair(<<"q", "t", "y">>, JStr(<<"5", "\"">>)), Pair(<<"A", ",", "B">>, JStr(<<"x", ",", "y">>))>>)

PersistJson ==
  { JObj(<<>>), Row1,
    JObj(<<Pair(<<"I", "d">>, JStr(<<"7">>)), Pair(S_source_id, JStr(<<"z", "z">>))>>),
    JArr(<<Row1, Row2>>),
    JObj(<<Pair(S_items, JArr(<<Row2>>))>>),
    JStr(<<"n", "/", "a">>) }

\* a CSV block whose header row is the expected one but for case, quotes,
\* blanks and an underscore; a blank CSV block
LooseCsv == <<"\"", "i", "d", "\"", ",", " ", "Q", "_", "t", "y", "\n", "7", ",", "2">>
BlankCsv == <<" ", "\n">>

PersistCsv ==
  { <<>>, BlankCsv, <<"I", "d", ",", "Q", "t", "y", "\n", "7", ",", "2">>, LooseCsv, <<"Q", "t", "y", ",", "I", "d", "\n", "2", ",", "7">>, <<"I", "d", "\n", "7">>,
    <<"\"", "A", ",", "B", "\"", "\n", "1">>, <<"C", "o", "n", "t", "e", "n", "t", "\n", "\"", "x", "\"">> }

InitPersist ==
  /\ meta = [d \in Docs |-> OtherProfile]
  /\ docs = [d \in Docs |-> [status |-> "pending", error_message |-> NoMsg]]
  /\ rows = {}
  /\ req = [r \in Reqs |-> IdleReq]
  /\ runs = 0
  /\ successes = [d \in Docs |-> 0]
  /\ InitGate
  /\ auditSink = "up"
  /\ userSettings = IdleSettings
  /\ \E src \in PersistSources, hs \in PersistHeaders,
        js \in PersistJson, csv \in PersistCsv :
       persist = [ phase |-> "parsed", sourceId |-> src, headers |-> hs,
                   jsonData |-> js, modelCsv |-> csv, csvData |-> csv,
                   content |-> JNull ]

\* lines 539-552
Enforce ==
  /\ persist.phase = "parsed"
  /\ persist' = [persist EXCEPT
                   !.phase = "enforced",
                   !.csvData = EnforceHeaders(persist.csvData,
                                              persist.jsonData,
                                              persist.headers)]
  /\ UNCHANGED <<meta, docs, rows, req, runs, rateLimitMap, now, lim, tally,
                 auditSink, successes, userSettings>>

\* lines 555-567
BuildContent ==
  /\ persist.phase = "enforced"
  /\ persist' = [persist EXCEPT
                   !.phase = "stored",
                   !.content = ContentPayload(persist.sourceId,
                                              persist.jsonData)]
  /\ UNCHANGED <<meta, docs, rows, req, runs, rateLimitMap, now, lim, tally,
                 auditSink, successes, userSettings>>

NextPersist == Enforce \/ BuildContent

\* the persist step of the handler on every input of the sets above
SpecPersist == InitPersist /\ [][NextPersist]_vars

(***************************************************************************)
(* rebuildCSVFromJson on its own, applied to every JSON value and header   *)
(* list of the sets below.                                                 *)
(***************************************************************************)
BobJson == JObj(<<Pair(<<"N", "a", "m", "e">>, JStr(<<"B", "o", "b">>)), Pair(<<"A", "g", "e">>, JNum(<<"3", "0">>))>>)
ItemsJson ==
  JObj(<<Pair(S_items, JArr(<<JObj(<<Pair(<<"N", "a", "m", "e">>, JStr(<<"A">>))>>),
                              JObj(<<Pair(<<"N", "a", "m", "e">>, JStr(<<"B">>))>>)>>))>>)
BobHeaders == <<<<"n", "a", "m", "e">>, <<"a", "g", "e">>>>
NameHeaders == <<<<"n", "a", "m", "e">>>>

RebuildJson ==
  { BobJson, ItemsJson, Row2, JArr(<<Row1, Row2>>), JNull,
    JStr(<<"n", "/", "a">>),
    JArr(<<JStr(<<"x">>), BobJson>>),
    JObj(<<Pair(<<"n", "a", "m", "e">>, JStr(<<"a", "\n", "b">>)), Pair(<<"a", "g", "e">>, JStr(<<"c", "\r", "d">>))>>),
    JObj(<<Pair(<<"N", "a", "m", "e">>, JNull),
           Pair(<<"a", "g", "e">>, JArr(<<JStr(<<"p">>), JStr(<<"q">>)>>))>>),
    JObj(<<Pair(<<"n", " ", "a", "-", "m", "_", "e">>, JStr(<<"1">>)), Pair(<<"N", "A", "M", "E">>, JStr(<<"2">>)),
           Pair(S_items, JStr(<<"x">>))>>),
    JObj(<<Pair(<<"0">>, JStr(<<"w">>)), Pair(<<>>, JStr(<<"v">>))>>),
    JArr(<<JArr(<<JStr(<<"x">>), JStr(<<"y">>)>>)>>) }

RebuildHeaders ==
  { BobHeaders, NameHeaders, <<<<"I", "d">>, <<"Q", "t", "y">>>>,
    <<<<"A", ",", "B">>>>, <<>>, <<<<"N", "a", "-", "m", "e">>, <<"n", "o", "t", "e">>>>,
    <<<<"_">>, <<"0">>>> }

InitRebuild ==
  /\ meta = [d \in Docs |-> OtherProfile]
  /\ docs = [d \in Docs |-> [status |-> "pending", error_message |-> NoMsg]]
  /\ rows = {}
  /\ req = [r \in Reqs |-> IdleReq]
  /\ runs = 0
  /\ successes = [d \in Docs |-> 0]
  /\ InitGate
  /\ auditSink = "up"
  /\ userSettings = IdleSettings
  /\ \E js \in RebuildJson, hs \in RebuildHeaders :
       persist = [IdlePersist EXCEPT !.phase = "json", !.jsonData = js,
                                     !.headers = Headers(hs)]

\* lines 739-768 applied to the JSON and the headers
Rebuild ==
  /\ persist.phase = "json"
  /\ persist' = [persist EXCEPT
                   !.phase = "rebuilt",
                   !.csvData = rebuildCSVFromJson(persist.jsonData,
                                                  persist.headers.list)]
  /\ UNCHANGED <<meta, docs, rows, req, runs, rateLimitMap, now, lim, tally,
                 auditSink, successes, userSettings>>

NextRebuild == Rebuild

SpecRebuild == InitRebuild /\ [][NextRebuild]_vars

(***************************************************************************)
(* update-user-settings: the function that reads (GET) and saves (POST)    *)
(* the caller's user_settings row, the Notion key encrypted at rest.       *)
(***************************************************************************)
S_secret == <<"s", "e", "c", "r", "e", "t", "_">>
S_ntn == <<"n", "t", "n", "_">>
S_sk == <<"s", "k", "_">>

\* s.startsWith(prefix)
StartsWith(s, prefix) ==
  Len(s) >= Len(prefix) /\ SubSeq(s, 1, Len(prefix)) = prefix

\* the character class [a-zA-Z0-9_-]
KeyChars ==
  { "a", "b", "c", "d", "e", "f", "g", "h", "i", "j", "k", "l", "m",
    "n", "o", "p", "q", "r", "s", "t", "u", "v", "w", "x", "y", "z",
    "A", "B", "C", "D", "E", "F", "G", "H", "I", "J", "K", "L", "M",
    "N", "O", "P", "Q", "R", "S", "T", "U", "V", "W", "X", "Y", "Z",
    "0", "1", "2", "3", "4", "5", "6", "7", "8", "9", "_", "-" }

\* /^(secret_|ntn_)[a-zA-Z0-9_-]+$/.test(s)
MatchesValidChars(s) ==
  \E prefix \in {S_secret, S_ntn} :
    /\ StartsWith(s, prefix)
    /\ Len(s) > Len(prefix)
    /\ \A i \in (Len(prefix) + 1)..Len(s) : s[i] \in KeyChars

\* validateNotionApiKey(apiKey): the object it returns
validateNotionApiKey(apiKey) ==
  IF apiKey = <<>>
  THEN [valid |-> FALSE, error |-> "API key is required"]
  ELSE LET trimmed == Trim(apiKey)
       IN  IF ~(StartsWith(trimmed, S_secret) \/ StartsWith(trimmed, S_ntn))
           THEN [valid |-> FALSE, error |-> "Invalid Notion API key format"]
           ELSE IF Len(trimmed) < 40
           THEN [valid |-> FALSE, error |-> "API key too short"]
           ELSE IF Len(trimmed) > 200
           THEN [valid |-> FALSE, error |-> "API key too long"]
           ELSE IF ~MatchesValidChars(trimmed)
           THEN [valid |-> FALSE,
                 error |-> "API key contains invalid characters"]
           ELSE [valid |-> TRUE, error |-> ""]

\* the nonces encryptData draws
Nonces == {1, 2}

\* encryptData(plaintext, secret): the blob of a nonce and the ciphertext
\* of the text under it
encryptData(plaintext, nonce) == [nonce |-> nonce, text |-> plaintext]

\* decryptData(blob, secret) with the secret the blob was made with
decryptData(blob) == blob.text

\* the keys a caller may post: none, well-formed ones (the shortest and
\* the longest the check takes, one with blanks around it) and ill-formed
\* ones (unknown prefix, too short, too long, a character outside the set)
GoodKey == S_ntn \o Rep("a", 36)
LongestKey == S_secret \o Rep("b", 193)
PaddedKey == <<" ">> \o GoodKey \o <<" ">>
ForeignKey == S_sk \o Rep("a", 40)
ShortKey == S_ntn \o Rep("a", 35)
LongKey == S_secret \o Rep("b", 194)
OddKey == S_ntn \o Rep("a", 35) \o <<"!">>
PostedKeys ==
  {<<>>, GoodKey, LongestKey, PaddedKey, ForeignKey, ShortKey, LongKey,
   OddKey}
PostedSources == {<<>>, PlainSource}

\* a response of the function: status, and the key a GET answers with
Answered(st, status, event) ==
  [st EXCEPT !.pc = "done", !.resp = status,
             !.events = IF event = "" THEN @ ELSE @ \cup {event}]

\* a request arrives: its method, its Authorization header and, for a
\* POST, its body
SettingsStart ==
  /\ userSettings.pc = "idle"
  /\ \E method \in {"GET", "POST"}, header \in BOOLEAN, json \in BOOLEAN,
        key \in PostedKeys, src \in PostedSources :
       /\ (method = "GET" \/ ~json) => (key = <<>> /\ src = <<>>)
       /\ method = "GET" => ~json
       /\ userSettings' =
            [IdleSettings EXCEPT
               !.row = userSettings.row, !.before = userSettings.row,
               !.pc = "auth", !.method = method, !.header = header,
               !.body = [json |-> json, notion_api_key |-> key,
                         default_source_id |-> src]]
  /\ UNCHANGED <<meta, docs, rows, req, runs, rateLimitMap, now, lim, tally,
                 auditSink, successes, persist>>

\* part_003 lines 24-61: the Authorization header and the user
SettingsAuth ==
  /\ userSettings.pc = "auth"
  /\ \E user \in BOOLEAN :
       userSettings' =
         IF ~userSettings.header
         THEN Answered(userSettings, 401, "")
         ELSE IF ~user
         THEN Answered(userSettings, 401, "unauthorized")
         ELSE [userSettings EXCEPT
                 !.pc = IF userSettings.method = "GET" THEN "get"
                        ELSE "validate"]
  /\ UNCHANGED <<meta, docs, rows, req, runs, rateLimitMap, now, lim, tally,
                 auditSink, successes, persist>>

\* part_003 lines 63-120: GET, the stored key decrypted
SettingsGet ==
  /\ userSettings.pc = "get"
  /\ \E fetched \in BOOLEAN, secret \in BOOLEAN, decrypts \in BOOLEAN :
       LET row == userSettings.row
           stored == row.present /\ row.notion_api_key # NoBlob
       IN  userSettings' =
             IF ~fetched THEN Answered(userSettings, 500, "")
             ELSE IF stored /\ ~secret THEN Answered(userSettings, 500, "")
             ELSE [Answered(userSettings, 200, "") EXCEPT
                     !.answer = IF stored /\ decrypts
                                THEN decryptData(row.notion_api_key)
                                ELSE <<>>]
  /\ UNCHANGED <<meta, docs, rows, req, runs, rateLimitMap, now, lim, tally,
                 auditSink, successes, persist>>

\* part_003 lines 123-144: the body is parsed (an exception goes to the
\* catch of lines 240-249) and the key, when one is given, is checked with
\* !validateNotionApiKey(notion_api_key), the negation of the object the
\* validator returns
SettingsValidate ==
  /\ userSettings.pc = "validate"
  /\ LET notion_api_key == userSettings.body.notion_api_key
     IN  userSettings' =
           IF ~userSettings.body.json
           THEN Answered(userSettings, 500, "")
           ELSE IF notion_api_key # <<>>
                   /\ ~Truthy(validateNotionApiKey(notion_api_key))
           THEN Answered([userSettings EXCEPT !.parsed = TRUE], 400,
                         "validate_notion_api_key")
           ELSE [userSettings EXCEPT !.parsed = TRUE, !.pc = "encrypt"]
  /\ UNCHANGED <<meta, docs, rows, req, runs, rateLimitMap, now, lim, tally,
                 auditSink, successes, persist>>

\* part_003 lines 146-189: the key, when one is given, is encrypted
SettingsEncrypt ==
  /\ userSettings.pc = "encrypt"
  /\ \E secret \in BOOLEAN, encrypts \in BOOLEAN, nonce \in Nonces :
       LET notion_api_key == userSettings.body.notion_api_key
       IN  userSettings' =
             IF notion_api_key = <<>>
             THEN [userSettings EXCEPT !.pc = "upsert", !.encrypted = NoBlob]
             ELSE IF ~secret \/ ~encrypts
             THEN Answered(userSettings, 500, "encrypt_api_key")
             ELSE [userSettings EXCEPT
                     !.pc = "upsert",
                     !.encrypted = encryptData(notion_api_key, nonce)]
  /\ UNCHANGED <<meta, docs, rows, req, runs, rateLimitMap, now, lim, tally,
                 auditSink, successes, persist>>

\* part_003 lines 191-239: the upsert of the caller's row and the answer
SettingsUpsert ==
  /\ userSettings.pc = "upsert"
  /\ \E ok \in BOOLEAN :
       userSettings' =
         IF ok
         THEN [Answered(userSettings, 200, "save_user_settings") EXCEPT
                 !.row = [present |-> TRUE,
                          notion_api_key |-> userSettings.encrypted,
                          default_source_id |->
                            userSettings.body.default_source_id]]
         ELSE Answered(userSettings, 500, "save_user_settings_failure")
  /\ UNCHANGED <<meta, docs, rows, req, runs, rateLimitMap, now, lim, tally,
                 auditSink, successes, persist>>

\* the response has gone out; the row stays as it is
SettingsFinish ==
  /\ userSettings.pc = "done"
  /\ userSettings' = [IdleSettings EXCEPT !.row = userSettings.row,
                                          !.before = userSettings.row]
  /\ UNCHANGED <<meta, docs, rows, req, runs, rateLimitMap, now, lim, tally,
                 auditSink, successes, persist>>

InitSettings ==
  /\ meta = [d \in Docs |-> OtherProfile]
  /\ InitStore
  /\ InitGate
  /\ auditSink = "up"

NextSettings ==
  \/ SettingsStart
  \/ SettingsAuth
  \/ SettingsGet
  \/ SettingsValidate
  \/ SettingsEncrypt
  \/ SettingsUpsert
  \/ SettingsFinish

\* the requests to update-user-settings of one caller, one after the other
SpecSettings == InitSettings /\ [][NextSettings]_vars

\* what the limiter on its own leaves alone
storeVars == <<meta, docs, rows, req, runs, auditSink, successes, persist,
               userSettings>>

\* the clock advances by a millisecond
Tick ==
  /\ now < Epoch + MaxTicks
  /\ now' = now + 1
  /\ UNCHANGED <<storeVars, rateLimitMap, lim, tally>>

\* the window of the requests' address is open and all but used up
NearLimit == {gateLimit - 1}

\* an instance that has served requests that left the store alone (their
\* bodies were no JSON) and now serves the owner of a PDF document
InitRateGate ==
  /\ meta = [d \in Docs |->
               IF d = "d1" THEN Attr(1024, "application/pdf", FALSE, PlainSource)
               ELSE OtherProfile]
  /\ InitStore
  /\ \E c \in NearLimit :
       /\ rateLimitMap =
            [k \in Ips |->
               IF k = ipAddress
               THEN [set |-> TRUE, count |-> c, resetTime |-> Epoch + 1]
               ELSE NoRecord]
       /\ tally =
            [k \in Ips |->
               IF k = ipAddress
               THEN [calls |-> c, until |-> Epoch + 1, windows |-> 1,
                     last |-> "allowed"]
               ELSE NoWindow]
  /\ now = Epoch
  /\ lim = GateLim
  /\ auditSink = "up"

\* time passes between two requests (a request reads the clock only as it
\* arrives)
Pause ==
  /\ \A r \in Reqs : req[r].pc = "idle"
  /\ Tick

NextRateGate == Step(1) \/ Pause

\* the handler behind its rate gate while the window runs out
SpecRateGate == InitRateGate /\ [][NextRateGate]_vars

\* a caller runs checkRateLimit(identifier, maxRequests, windowMs)
Check(identifier) ==
  /\ tally[identifier].calls < MaxCalls
  /\ LET result == checkRateLimit(rateLimitMap, identifier,
                                  lim.maxRequests, lim.windowMs, now)
     IN  /\ rateLimitMap' = result.map
         /\ tally' = Tally(tally, identifier, lim.windowMs, now, result)
  /\ UNCHANGED <<storeVars, now, lim>>

\* the limits and windows the limiter is called with
Limits == {1, 2, 3}
Windows == {1, 2}

InitLimiter ==
  /\ meta = [d \in Docs |-> OtherProfile]
  /\ InitStore
  /\ rateLimitMap = [k \in Ips |-> NoRecord]
  /\ now = Epoch
  /\ lim \in [maxRequests : Limits, windowMs : Windows]
  /\ tally = [k \in Ips |-> NoWindow]
  /\ auditSink = "up"

CheckAny == \E identifier \in Ips : Check(identifier)

NextLimiter == CheckAny \/ Tick

\* the rate limiter alone, called for two identifiers while time passes
SpecLimiter == InitLimiter /\ [][NextLimiter]_vars

(***************************************************************************)
(* Properties.                                                             *)
(***************************************************************************)
Range(q) == {q[i] : i \in 1..Len(q)}

\* the documents a request names: the rows its id matches once sanitized
TargetDocs(rq) == MatchDoc(validateUUID(rq.documentId).sanitized)

\* the request is running, its caller does not own the document it names,
\* and nothing but the ownership check has failed in it
NotOwner(rq, d) ==
  /\ rq.pc # "idle"
  /\ rq.cause \in {"none", "unauth"}
  /\ d \in TargetDocs(rq)
  /\ user_id(d) # rq.caller

\* the document carries a source_id the validator declares invalid
InvalidSource(d) ==
  /\ meta[d].source_id # NoSource
  /\ ~validateSourceId(meta[d].source_id).valid

C2_SuccessMeansCompleted ==
  \A r \in Reqs :
    (req[r].pc = "done" /\ req[r].resp = 200) =>
      /\ docs[req[r].doc].status = "completed"
      /\ \E row \in rows : /\ row.document_id = req[r].doc
                           /\ row.run = req[r].run

\* C3, as claimed: a request whose caller does not own the document it names
\* fails with the authorization error and never changes that document.
C3_OwnershipGate ==
  [][\A r \in Reqs, d \in Docs :
       NotOwner(req[r], d) =>
         /\ docs'[d] = docs[d]
         /\ req'[r].pc = "done" =>
              (req'[r].cause = "unauth" /\ req'[r].resp # 200)]_vars

\* C4, as claimed: a request that fails the validation of its id, of the
\* file size or of the file type, all made before the processing mark,
\* leaves the status and error_message of every document unchanged.
C4_PreMarkFrame ==
  [][\A r \in Reqs :
       (req[r].pc = "catch" /\ req[r].cause \in {"badId", "size", "type"})
         => docs' = docs]_vars

\* C5, as claimed: for a document whose source_id is not a 32-hex id the
\* request makes no credential lookup, schema fetch, file retrieval or AI
\* call, and once the document passed the earlier checks it answers 400.
C5_InvalidSourceRejected ==
  \A r \in Reqs :
    (req[r].doc # "none" /\ InvalidSource(req[r].doc)) =>
      /\ req[r].calls = {}
      /\ (req[r].pc = "done" /\ req[r].cause \notin {"unauth", "size", "type"})
           => req[r].resp = 400

\* C6, as claimed: a malformed id is answered 400, an ownership mismatch or
\* a missing caller credential 401, and 500 answers only failures that are
\* neither validation nor authorization failures.
C6_StatusByClass ==
  \A r \in Reqs :
    req[r].pc = "done" =>
      /\ req[r].cause = "badId" => req[r].resp = 400
      /\ req[r].cause = "unauth" => req[r].resp = 401
      /\ req[r].resp = 500 =>
           req[r].cause \notin {"badId", "size", "type", "unauth"}

\* the request has run the text extraction on a document that is not of an
\* image type and no text came out of it
NoTextNoImage(rq) ==
  /\ "extracted" \in rq.notes
  /\ ~rq.text
  /\ ~IsImage(meta[rq.doc].file_type)

C8_MissingSecretFatal ==
  \A r \in Reqs :
    (req[r].pc = "done"
       /\ (req[r].cause = "noGemini" \/ "noSecret" \in req[r].notes)) =>
      /\ req[r].resp = 500
      /\ "completed" \notin Range(req[r].issued)

\* the run failed in file retrieval, in the AI call or in the insert
FatalCauses == {"download", "ai", "aiBody", "insert"}

C10_SchemaBestEffort ==
  \A r \in Reqs :
    "schemaFailed" \in req[r].notes =>
      /\ req[r].headers = NoHeaders
      /\ req[r].pc \notin {"idle", "schema"}
      /\ req[r].pc = "catch" => "processing" \in Range(req[r].issued)
      /\ req[r].cause \in
           {"none", "noGemini", "download", "unsupported", "ai", "aiBody",
            "insert"}
      /\ (req[r].pc = "done" /\ req[r].cause = "none"
            /\ "completed" \in req[r].applied) =>
           /\ req[r].resp = 200
           /\ req[r].inserted
           /\ docs[req[r].doc].status = "completed"

\* C10, witness: the schema fetch failed and the run completed the document.
C10_CompletedWithoutSchema ==
  \E r \in Reqs :
    /\ "schemaFailed" \in req[r].notes
    /\ req[r].pc = "done"
    /\ req[r].resp = 200
    /\ docs[req[r].doc].status = "completed"

\* the owner has a stored key and it was decrypted
PersonalKeyDecrypted(rq) ==
  /\ "storedKey" \in rq.notes
  /\ "noSecret" \notin rq.notes
  /\ "decryptFailed" \notin rq.notes

\* C11: once the credential step of a run has looked the settings up, the
\* key is the owner's stored key exactly when that key was decrypted, and
\* the system-wide key is then not used; otherwise it is the system-wide key
\* exactly when one is configured; otherwise there is none and the run goes
\* on without a schema fetch.  A failed decryption or a missing secret
\* never makes the run fail at this step.
C11_CredentialPriority ==
  \A r \in Reqs :
    "settings" \in req[r].calls =>
      /\ req[r].key = "personal" <=> PersonalKeyDecrypted(req[r])
      /\ req[r].key = "personal" =>
           "use_system_notion_key" \notin req[r].audits
      /\ req[r].key = "system" <=>
           (~PersonalKeyDecrypted(req[r]) /\ "systemKey" \in req[r].notes)
      /\ req[r].key = "none" =>
           ("schema" \notin req[r].calls /\ req[r].headers = NoHeaders)
      /\ req[r].pc # "settings"
      /\ req[r].cause \notin {"size", "type", "unauth", "badId", "docError",
                               "json"}
      /\ req[r].pc = "catch" => "processing" \in Range(req[r].issued)

\* C11, witness: the stored key could not be decrypted, the system-wide key
\* was used in its place and the run completed the document.
C11_FallbackAfterDecryptFailure ==
  \E r \in Reqs :
    /\ "decryptFailed" \in req[r].notes
    /\ req[r].key = "system"
    /\ "schema" \in req[r].calls
    /\ req[r].pc = "done"
    /\ req[r].resp = 200

Min(a, b) == IF a < b THEN a ELSE b

\* C12: for every identifier and every limit N >= 1, whatever the order of
\* the calls, a call is allowed exactly when it is among the first N calls
\* of its window; a call made after the end of the window is the first call
\* of a new window, is allowed, and leaves the counter at 1 with a reset
\* time one window ahead.
C12_FirstNAllowed ==
  \A k \in Ips :
    tally[k].calls > 0 =>
      /\ tally[k].last = "allowed" <=> tally[k].calls <= lim.maxRequests
      /\ rateLimitMap[k].set
      /\ rateLimitMap[k].count = Min(tally[k].calls, lim.maxRequests)
      /\ rateLimitMap[k].resetTime = tally[k].until
      /\ tally[k].calls = 1 =>
           (tally[k].last = "allowed" /\ rateLimitMap[k].count = 1)

\* C12, witness: in its second window an identifier has used up the limit
\* and its next call was rejected.
C12_RejectedInSecondWindow ==
  \E k \in Ips :
    /\ tally[k].windows = 2
    /\ tally[k].calls = lim.maxRequests + 1
    /\ tally[k].last = "rejected"

\* C13: the step in which the rate limiter rejects a request answers 429
\* with the reset time of the window and a Retry-After that is not negative,
\* and in it the request reads and writes no row of the store, writes no
\* audit event, authenticates nobody and calls no external service; the
\* request then only ends.
C13_RejectedBeforeAnyWork ==
  [][\A r \in Reqs :
       (req[r].pc = "idle" /\ req'[r].cause = "rate") =>
         /\ req'[r].pc = "done"
         /\ req'[r].resp = 429
         /\ req'[r].resetTime = rateLimitMap[ipAddress].resetTime
         /\ req'[r].retryAfter >= 0
         /\ req'[r].doc = "none"
         /\ req'[r].calls = {}
         /\ req'[r].audits = {}
         /\ req'[r].issued = <<>>
         /\ req'[r].key = "none"
         /\ docs' = docs
         /\ rows' = rows
         /\ rateLimitMap' = rateLimitMap]_vars

\* C13, witness: a request was answered 429 at the very end of the window,
\* with a Retry-After of zero seconds.
C13_RejectedAtWindowEnd ==
  \E r \in Reqs :
    /\ req[r].pc = "done"
    /\ req[r].resp = 429
    /\ req[r].resetTime = now
    /\ req[r].retryAfter = 0

\* C14: nothing excludes two requests for one document from each other: a
\* request that has reached the processing mark can always make it, and a
\* request that has reached the insert can always make it, whatever the
\* status of the document and whatever the other request has done; every
\* request that has inserted has a row of its own.
C14_NoMutualExclusion ==
  \A r \in Reqs :
    /\ req[r].pc = "mark" => ENABLED MarkProcessing(r)
    /\ req[r].pc = "insert" => ENABLED InsertRow(r)
    /\ req[r].inserted =>
         \E row \in RowsOf(req[r].doc) : row.run = req[r].run

\* C14, witness: two requests for the same document are in flight, both
\* have had their processing mark applied and both have inserted: the
\* document has two rows.
C14_TwoRowsOneDocument ==
  /\ req[1].pc = "complete"
  /\ req[2].pc = "complete"
  /\ req[1].doc = req[2].doc
  /\ "processing" \in req[1].applied
  /\ "processing" \in req[2].applied
  /\ Cardinality(RowsOf(req[1].doc)) = 2

\* the requests in flight that have inserted their row for a document and
\* have not answered yet
Answering(d) ==
  {r \in Reqs : /\ req[r].doc = d
                /\ req[r].inserted
                /\ req[r].pc \in {"complete", "respond"}}

\* C15: no step removes or changes a row of extracted_data and a step adds
\* at most one; a run that answers success has inserted exactly one row and
\* a run that fails has inserted none; for every document the number of rows
\* is the number of runs that answered success for it, plus the runs that
\* have inserted and are about to answer.
C15_OneRowPerSuccess ==
  [][/\ rows \subseteq rows'
     /\ Cardinality(rows') <= Cardinality(rows) + 1
     /\ \A r \in Reqs :
          req'[r].pc = "done" =>
            /\ req'[r].resp = 200 <=> req'[r].inserted
            /\ Cardinality({row \in rows' : row.run = req'[r].run}) =
                 (IF req'[r].resp = 200 THEN 1 ELSE 0)
     /\ \A d \in Docs :
          Cardinality(RowsOf(d)') =
            successes'[d] + Cardinality(Answering(d)')]_vars

\* C15, witness: a document processed twice with success has two rows.
C15_ReprocessedTwice ==
  \E d \in Docs :
    /\ successes[d] = 2
    /\ Cardinality(RowsOf(d)) = 2

\* the value the handler resolved for source_id, as a JSON value
ResolvedTag(sourceId) == IF sourceId = NoSource THEN JNull ELSE JStr(sourceId)

\* C16, as claimed: whatever keys the JSON of the model has, the content
\* that is stored has a source_id field equal to the source_id the run
\* resolved from the document, null when the document has none.
C16_TaggedWithSourceId ==
  persist.phase = "stored" =>
    /\ S_source_id \in Keys(persist.content)
    /\ Lookup(persist.content, S_source_id) = ResolvedTag(persist.sourceId)

\* C19, as claimed: when a header list was obtained (one header at least),
\* the first line of the CSV that is stored, split at the commas outside
\* quoted fields, yields the expected headers: same count, same names, same
\* order.
C19_FirstLineIsHeaders ==
  (persist.phase \in {"enforced", "stored"}
     /\ persist.headers.some /\ persist.headers.list # <<>>) =>
    parseCSVHeaders(FirstLine(persist.csvData)) = persist.headers.list

\* normalization as the claim words it: spaces, underscores and hyphens
\* removed, lower-cased
RECURSIVE Normalized(_)
Normalized(k) ==
  IF k = <<>> THEN <<>>
  ELSE IF Head(k) \in {" ", "_", "-"} THEN Normalized(Tail(k))
       ELSE <<LowerChar(Head(k))>> \o Normalized(Tail(k))

\* the first line of the CSV has as many fields as there are expected
\* headers and each field equals the header at its position once normalized
FirstLineMatches(csv, wanted) ==
  LET got == parseCSVHeaders(FirstLine(csv))
  IN  /\ Len(got) = Len(wanted)
      /\ \A i \in 1..Len(got) : Normalized(got[i]) = Normalized(wanted[i])

\* C20, as claimed: when a header list was obtained, the CSV that is stored
\* is the CSV of the model, unchanged, if its first line matches the
\* expected headers, and the CSV rebuilt from the JSON in every other case.
C20_MatchOrRebuild ==
  (persist.phase \in {"enforced", "stored"}
     /\ persist.headers.some /\ persist.headers.list # <<>>) =>
    persist.csvData =
      (IF FirstLineMatches(persist.modelCsv, persist.headers.list)
       THEN persist.modelCsv
       ELSE rebuildCSVFromJson(persist.jsonData, persist.headers.list))

\* C20, amended: when a header list with one header at least was obtained,
\* a CSV of the model that is empty or blank is replaced by the CSV rebuilt
\* from the JSON, any other CSV is stored unchanged if its first line
\* matches the expected headers and is replaced by the rebuilt CSV if not;
\* without such a list the CSV of the model is stored unchanged.
C20_MatchOrRebuildUnlessBlank ==
  persist.phase \in {"enforced", "stored"} =>
    persist.csvData =
      (IF ~persist.headers.some \/ persist.headers.list = <<>>
       THEN persist.modelCsv
       ELSE IF TrimWs(persist.modelCsv) # <<>>
               /\ FirstLineMatches(persist.modelCsv, persist.headers.list)
       THEN persist.modelCsv
       ELSE rebuildCSVFromJson(persist.jsonData, persist.headers.list))

\* C20, witness: a CSV whose header row differs from the expected headers
\* in case, quotes, blanks and an underscore only was stored unchanged.
C20_LooseHeadersKept ==
  /\ persist.phase = "enforced"
  /\ persist.headers.some
  /\ Len(persist.headers.list) = 2
  /\ persist.modelCsv = LooseCsv
  /\ persist.csvData = LooseCsv

\* the audit events of the handler
AuditActions ==
  { "process_document_invalid_id", "process_document_start",
    "process_document_unauthorized", "validate_source_id",
    "fetch_user_settings", "decrypt_api_key", "use_personal_notion_key",
    "use_system_notion_key", "fetch_notion_schema",
    "process_document_complete" }

\* a request's locals without the record of what became of its audit writes
WithoutAuditFailures(rq) == [rq EXCEPT !.auditFailures = {}]

C18_StoredMessageAtMost500 ==
  \A d \in Docs : docs[d].error_message.len <= 500

\* the rows the rule names: the array itself, else its items array, else the
\* JSON as the one row
ExpectedRows(json) ==
  CASE json.kind = "array" -> json.items
    [] json.kind = "object"
         /\ \E i \in 1..Len(json.pairs) :
              json.pairs[i].k = S_items /\ json.pairs[i].v.kind = "array" ->
         (CHOOSE v \in {json.pairs[i].v : i \in 1..Len(json.pairs)} :
            \E i \in 1..Len(json.pairs) :
              json.pairs[i].k = S_items /\ json.pairs[i].v = v).items
    [] OTHER -> <<json>>

\* the positions of the keys of a row that equal the header once normalized
MatchingKeys(row, header) ==
  {i \in 1..Len(Entries(row)) :
     Normalized(Entries(row)[i].k) = Normalized(header)}

\* the text of the cell: the value of the first such key, empty without one
ExpectedText(row, header) ==
  LET at == MatchingKeys(row, header)
  IN  IF at = {} THEN <<>>
      ELSE StringOf(Entries(row)[CHOOSE i \in at : \A j \in at : i <= j].v)

\* the same, empty too when the first such key is the empty string
ExpectedTextOfNamedKey(row, header) ==
  LET at == MatchingKeys(row, header)
      first == CHOOSE i \in at : \A j \in at : i <= j
  IN  IF at = {} \/ Entries(row)[first].k = <<>> THEN <<>>
      ELSE StringOf(Entries(row)[first].v)

\* the text between quotes, each quote of it written twice, when it holds a
\* comma, a quote or a line break, the text itself otherwise
RECURSIVE Escaped(_)
Escaped(text) ==
  IF text = <<>> THEN <<>>
  ELSE IF text[Len(text)] = "\""
       THEN Escaped(SubSeq(text, 1, Len(text) - 1)) \o <<"\"", "\"">>
       ELSE Escaped(SubSeq(text, 1, Len(text) - 1)) \o <<text[Len(text)]>>

ExpectedCell(text) ==
  IF {text[i] : i \in 1..Len(text)} \cap {",", "\"", "\n", "\r"} # {}
  THEN <<"\"">> \o Escaped(text) \o <<"\"">>
  ELSE text

\* the parts with the separator between each two of them
RECURSIVE Glued(_, _)
Glued(parts, sep) ==
  IF Len(parts) = 0 THEN <<>>
  ELSE IF Len(parts) = 1 THEN parts[1]
       ELSE Glued(SubSeq(parts, 1, Len(parts) - 1), sep)
            \o sep \o parts[Len(parts)]

\* the CSV of the rule, text(row, header) being the text of a cell
ExpectedCsvWith(text(_, _), json, headers) ==
  LET rws == ExpectedRows(json)
  IN  Glued(<<Glued(headers, <<",">>)>>
            \o [n \in 1..Len(rws) |->
                  Glued([i \in 1..Len(headers) |->
                           ExpectedCell(text(rws[n], headers[i]))],
                        <<",">>)],
            <<"\n">>)

ExpectedCsv(json, headers) == ExpectedCsvWith(ExpectedText, json, headers)

\* C21, as claimed: rebuildCSVFromJson returns the headers joined by commas, then one
\* line per row (the array, else its items array, else the JSON as one
\* row), each cell the value of the first key of the row that equals the
\* header once normalized, empty without one, between quotes with its
\* quotes doubled exactly when it holds a comma, a quote or a line break;
\* {Name: Bob, Age: 30} with headers name, age gives name,age and Bob,30,
\* and the items A and B with the header name give name, A and B.
C21_RebuildAsDescribed ==
  persist.phase = "rebuilt" =>
    /\ persist.csvData = ExpectedCsv(persist.jsonData, persist.headers.list)
    /\ (persist.jsonData = BobJson /\ persist.headers.list = BobHeaders) =>
         persist.csvData = <<"n", "a", "m", "e", ",", "a", "g", "e", "\n", "B", "o", "b", ",", "3", "0">>
    /\ (persist.jsonData = ItemsJson /\ persist.headers.list = NameHeaders) =>
         persist.csvData = <<"n", "a", "m", "e", "\n", "A", "\n", "B">>

\* C21, amended: rebuildCSVFromJson returns the headers joined by commas, then one
\* line per row (the array, else its items array, else the JSON as one
\* row), each cell the value of the first key of the row that equals the
\* header once normalized, empty without one and empty when that
\* key is the empty string, between quotes with its
\* quotes doubled exactly when it holds a comma, a quote or a line break;
\* {Name: Bob, Age: 30} with headers name, age gives name,age and Bob,30,
\* and the items A and B with the header name give name, A and B.
C21_RebuildFromNamedKeys ==
  persist.phase = "rebuilt" =>
    /\ persist.csvData = ExpectedCsvWith(ExpectedTextOfNamedKey,
                                      persist.jsonData, persist.headers.list)
    /\ (persist.jsonData = BobJson /\ persist.headers.list = BobHeaders) =>
         persist.csvData = <<"n", "a", "m", "e", ",", "a", "g", "e", "\n", "B", "o", "b", ",", "3", "0">>
    /\ (persist.jsonData = ItemsJson /\ persist.headers.list = NameHeaders) =>
         persist.csvData = <<"n", "a", "m", "e", "\n", "A", "\n", "B">>

\* C21, witness: an array of two rows was rebuilt under the headers Id and
\* Qty, the second row without an Id and with a quote in its Qty.
C21_QuotedCellRebuilt ==
  /\ persist.phase = "rebuilt"
  /\ persist.jsonData = JArr(<<Row1, Row2>>)
  /\ persist.csvData = <<"I", "d", ",", "Q", "t", "y", "\n", "7", ",", "2", "\n", ",", "\"", "5", "\"", "\"", "\"">>

\* C22, as claimed: a run whose request body carries a sourceId uses that id:
\* it is the sourceId of the run once the document is loaded and checked, the
\* schema of that database is fetched when a credential is there, and the
\* row the run inserts is tagged with it.
C22_BodySourceIdUsed ==
  \A r \in Reqs :
    (req[r].bodySourceId # NoSource /\ req[r].inserted) =>
      /\ req[r].sourceId = req[r].bodySourceId
      /\ \E x \in rows :
           /\ x.document_id = req[r].doc
           /\ x.run = req[r].run
           /\ x.source_id = req[r].bodySourceId

\* the run in slot r has set the status of its document to processing
MarkedProcessing(r) ==
  req[r].pc \notin {"idle"} /\ processingStatus \in req[r].applied

\* the last status write the run in slot r has issued is the write of
\* completed or of error
TerminalWriteIssued(r) ==
  /\ req[r].issued # <<>>
  /\ req[r].issued[Len(req[r].issued)] \in {completedStatus, catchStatusValue}

\* C23: a run that has set the status of its document to processing goes
\* on, every call returning, to issue the write of completed or of error
\* and then to return its response; when it has returned, the last status
\* write it issued is that write, and the document has that status if the
\* store accepted the write.
C23_MarkedRunSettles ==
  /\ [](\A r \in Reqs :
          (req[r].pc = "done" /\ processingStatus \in req[r].applied) =>
            /\ TerminalWriteIssued(r)
            /\ req[r].issued[Len(req[r].issued)] \in req[r].applied =>
                 \A d \in MatchDoc(req[r].documentId) :
                    docs[d].status \in {completedStatus, catchStatusValue})
  /\ \A r \in Reqs :
       MarkedProcessing(r) ~> (req[r].pc = "done" /\ TerminalWriteIssued(r))

\* C23, witness: a run that had set its document to processing failed
\* afterwards and returned with the document in status error.
C23_FailedAfterMarkSettled ==
  \E r \in Reqs :
    /\ req[r].pc = "done"
    /\ req[r].resp = 500
    /\ processingStatus \in req[r].applied
    /\ docs[req[r].doc].status = catchStatusValue

\* C24, as claimed: a request that went through the catch block with a
\* document id has, when its response is out, emitted the audit event
\* process_document_error (the audit_logs table storing every event).
C24_ErrorPathAudited ==
  \A r \in Reqs :
    (req[r].pc = "done" /\ req[r].resp = 500 /\ req[r].documentId # <<>>) =>
      "process_document_error" \in req[r].audits

\* the status writes the run in slot r has issued so far
IssuedBy(r) == {req[r].issued[i] : i \in 1..Len(req[r].issued)}

\* C25: the step that calls the generative-AI endpoint is taken only by a
\* run that has issued the update of its document to processing in an
\* earlier step, and a run that has called the endpoint has issued it.
C25_MarkBeforeAI ==
  [][\A r \in Reqs :
       /\ ("ai" \in req'[r].calls /\ "ai" \notin req[r].calls) =>
            processingStatus \in IssuedBy(r)
       /\ "ai" \in req[r].calls =>
            req[r].issued # <<>> /\ req[r].issued[1] = processingStatus]_vars

\* C25, witness: the endpoint has been called by a run whose only status
\* write so far is the update to processing, which the document shows.
C25_CalledWhileProcessing ==
  \E r \in Reqs :
    /\ "ai" \in req[r].calls
    /\ req[r].issued = <<processingStatus>>
    /\ docs[req[r].doc].status = processingStatus

\* C26: whatever becomes of the status update inside the catch block
\* (applied, refused by the store, or an exception), the step out of the
\* catch block is the return of the error response, with the message of
\* the error that was caught; no exception leaves the handler.
C26_ErrorPathReturns ==
  [][\A r \in Reqs :
       /\ req'[r].pc # "crashed"
       /\ (req[r].pc = "catch" /\ req'[r].pc # "catch") =>
            /\ req'[r].pc = "done"
            /\ req'[r].resp = 500
            /\ req'[r].error = req[r].error
            /\ req'[r].cause = req[r].cause]_vars

\* C26, witness: the update inside the catch block threw and the 500
\* response was returned, the document left as it was.
C26_ReturnedAfterUpdateThrew ==
  \E r \in Reqs :
    /\ req[r].pc = "done"
    /\ req[r].resp = 500
    /\ "catchUpdateThrew" \in req[r].notes
    /\ catchStatusValue \notin req[r].applied

C28_CompletedHasRow ==
  \A d \in Docs : docs[d].status = completedStatus => RowsOf(d) # {}

\* C28, witness: one request has completed the document and returned while
\* a second request on the same document, its own insert still ahead of
\* it, is in flight; the document is completed and has a row.
C28_CompletedWhileOtherRuns ==
  \E r1, r2 \in Reqs :
    /\ r1 # r2
    /\ req[r1].pc = "done" /\ req[r1].resp = 200
    /\ req[r2].pc = "insert"
    /\ req[r1].doc = req[r2].doc
    /\ docs[req[r1].doc].status = completedStatus
    /\ RowsOf(req[r1].doc) # {}

\* C29: a document whose status is completed carries no error_message; a
\* run that succeeds on a document that an earlier run failed on leaves it
\* completed with an empty error_message.
C29_CompletedWithoutMessage ==
  \A d \in Docs : docs[d].status = completedStatus =>
                    docs[d].error_message = NoMsg

\* the key a POST carried fails the format check of validateNotionApiKey
PostedKeyIllFormed ==
  /\ userSettings.method = "POST"
  /\ userSettings.parsed
  /\ userSettings.body.notion_api_key # <<>>
  /\ ~validateNotionApiKey(userSettings.body.notion_api_key).valid

\* C30: a POST whose notion_api_key fails the format check is answered
\* with 400 and leaves the caller's user_settings row as it was; a key
\* that is stored is one that passes the check.
C30_IllFormedKeyRejected ==
  /\ (userSettings.pc = "done" /\ PostedKeyIllFormed) =>
       /\ userSettings.resp = 400
       /\ userSettings.row = userSettings.before
  /\ (userSettings.row.present
        /\ userSettings.row.notion_api_key # NoBlob) =>
       validateNotionApiKey(
         decryptData(userSettings.row.notion_api_key)).valid

====
